---- MODULE Spec2Model ----
(***************************************************************************)
(* Dual AutoClicker + Key Presser (jj-repository/autoclicker).             *)
(*                                                                         *)
(* The automation engine of autoclicker_evdev.py (the three-slot variant; *)
(* autoclicker.py is the same engine without the key presser and the       *)
(* emergency stop): hotkey dispatch with its rate limiter, the toggle /   *)
(* start / stop operations of the actuator slots, the worker loops and    *)
(* the hotkey capture (rebinding) workflow with its two listeners.         *)
(*                                                                         *)
(* Threads.  The Tk main thread ("ui") runs one handler at a time.  Every  *)
(* pynput keyboard.Listener is a thread of its own that runs its callback  *)
(* for one event at a time; Listener.stop() is a request: the code never   *)
(* joins a listener, so a callback that is in flight when its listener is  *)
(* stopped runs to completion.  Every start of a slot spawns a new worker  *)
(* thread.  A step of the model is one critical section (a `with lock:`    *)
(* block) or one run of lock-free statements between two of them.          *)
(*                                                                         *)
(* Also modelled: the interval of each slot with _apply_interval and the   *)
(* configuration file (load_config, save_config), and the update pipeline  *)
(* _apply_update of autoclicker.py, one thread per "Update Now" click, a   *)
(* step per network or file operation; the threads share the script, its   *)
(* backup and one temp path (it is named after the process id).            *)
(*                                                                         *)
(* Further parts, each with a specification of its own: the update check   *)
(* _check_for_updates with the version comparison _version_newer, the key  *)
(* conversions _serialize_key / _deserialize_key, load_config field by     *)
(* field for both programs, and the shutdown handler on_closing.           *)
(***************************************************************************)
EXTENDS Integers, Sequences, FiniteSets, TLC

\* ------------------------------------------------------------------ bounds
MaxWorkers == 2      \* live worker threads per slot
MaxTime == 200       \* the clock stops here (milliseconds)
MaxAfter == 1        \* callbacks pending in the Tk after() queue

\* ------------------------------------------------------- program constants
hotkey_cooldown == 200     \* milliseconds
TickMs == 50               \* granularity of the clock
MIN_INTERVAL == 10                    \* milliseconds
MAX_INTERVAL == 60000
DEFAULT_CLICKER1_INTERVAL == 100
DEFAULT_CLICKER2_INTERVAL == 500
DEFAULT_KEYPRESSER_INTERVAL == 100

Slots == {"clicker1", "clicker2", "keypresser"}
Targets == Slots \cup {"emergency_stop"}
Keys == {"f6", "f7", "f8", "f9"}
ListenerIds == {1, 2, 3}

Clickers == {"clicker1", "clicker2"}

\* Mutant: the key presser in the group of clicker 1.
SiblingOfAll(s) ==
    CASE s = "clicker1" -> "clicker2"
      [] s = "clicker2" -> "clicker1"
      [] OTHER -> "clicker1"

\* The clicker MutexGroup: the sibling a toggle stops before it starts.
Sibling(s) ==
    CASE s = "clicker1" -> "clicker2"
      [] s = "clicker2" -> "clicker1"
      [] OTHER -> "none"

VARIABLES
    clicking,               \* clicker1_clicking, clicker2_clicking, keypresser_pressing
    status,                 \* status1_var, status2_var, keypresser_status_var
    workers,                \* per slot: how many worker threads are at each position
    hotkey,                 \* clicker1_hotkey, ..., emergency_stop_hotkey
    last_hotkey_time,       \* key -> time of its last dispatched press
    now,                    \* time.time(), in milliseconds
    listening_for_hotkey,   \* the capturing flag
    hotkey_target,          \* the target being rebound
    keyboard_listener,      \* the dispatch listener object (0: None)
    hotkey_capture_listener,\* the capture listener object (0: None)
    listener,               \* per listener thread: kind, running, pc, locals
    ui,                     \* the main thread: position in start_hotkey_capture
    afterQueue,             \* callbacks scheduled with window.after(0, ...)
    interval,               \* clicker1_interval, clicker2_interval, keypresser_interval
    interval_var,           \* the text of each slot's interval entry
    config,                 \* the persisted configuration file
    dialog,                 \* the last message box of _apply_interval
    files,                  \* the script, its backup and the update temp file
    upd,                    \* per update thread: position in _apply_update, locals
    chk,                    \* per update-check thread: position in _check_for_updates
    ver,                    \* _version_newer: the arguments of its calls, the results
    keyio,                  \* _serialize_key / _deserialize_key: argument and result
    loaded,                 \* load_config: the document, the attributes it sets
    window,                 \* the Tk window, the warnings on_closing printed
    loop,                   \* per slot: the worker loops' local `interval`, the sleeps
    lock,                   \* clicker1_lock, ..., hotkey_capture_lock: the holder
    thread                  \* per thread: the lock and file operations ahead of it

slotVars == <<clicking, status, workers>>
engineVars == <<clicking, status, workers, hotkey, last_hotkey_time, now,
                listening_for_hotkey, hotkey_target, keyboard_listener,
                hotkey_capture_listener, listener, ui, afterQueue>>
cfgVars == <<interval, interval_var, config, dialog>>
updVars == <<files, upd>>
lockVars == <<lock, thread>>
restVars == <<chk, ver, keyio, loaded, window, loop, lockVars>>
vars == <<clicking, status, workers, hotkey, last_hotkey_time, now,
          listening_for_hotkey, hotkey_target, keyboard_listener,
          hotkey_capture_listener, listener, ui, afterQueue,
          interval, interval_var, config, dialog, files, upd,
          chk, ver, keyio, loaded, window, loop, lock, thread>>

NoWorkers == [p \in {"check", "action", "failed"} |-> 0]
Alive(s) == workers[s]["check"] + workers[s]["action"] + workers[s]["failed"]

\* A listener thread with no callback in flight.  Locals of a callback: key,
\* slot (the slot toggled, or the target rebound), and two history values
\* the claims are stated with: sib (the sibling ran when toggle read the
\* flag) and noop (the stop call that just returned found the slot stopped).
IdleThread == [kind |-> "none", running |-> FALSE, pc |-> "idle",
               key |-> "none", slot |-> "none", sib |-> FALSE, noop |-> FALSE]

\* The main thread outside start_hotkey_capture.  early: its last call of
\* start_hotkey_capture returned at the test of the capturing flag.
IdleUi == [pc |-> "idle", target |-> "none", early |-> FALSE]

\* __init__ apart from the hotkeys: the slots idle, no rebinding, and
\* start_keyboard_listener().
InitIdle ==
    /\ clicking = [s \in Slots |-> FALSE]
    /\ status = [s \in Slots |-> "Idle"]
    /\ workers = [s \in Slots |-> NoWorkers]
    /\ last_hotkey_time = << >>
    /\ now = 0
    /\ listening_for_hotkey = FALSE
    /\ hotkey_target = "none"
    /\ keyboard_listener = 1
    /\ hotkey_capture_listener = 0
    /\ listener = [i \in ListenerIds |->
                     IF i = 1 THEN [IdleThread EXCEPT !.kind = "dispatch", !.running = TRUE]
                     ELSE IdleThread]
    /\ ui = IdleUi
    /\ afterQueue = << >>

\* __init__: the engine's defaults, then start_keyboard_listener().
InitEngine ==
    /\ hotkey = [t \in Targets |->
                   CASE t = "clicker1" -> "f6"
                     [] t = "clicker2" -> "f7"
                     [] t = "keypresser" -> "f8"
                     [] OTHER -> "f9"]
    /\ InitIdle

\* ------------------------------------------------ intervals and the config file
\* A Python float, in milliseconds, or NaN; ValueError, TypeError and
\* OverflowError stand for a float() call that raised.
Num(ms) == [kind |-> "num", ms |-> ms]
NaN == [kind |-> "nan", ms |-> 0]
ValueError == [kind |-> "ValueError", ms |-> 0]
TypeError == [kind |-> "TypeError", ms |-> 0]
OverflowError == [kind |-> "OverflowError", ms |-> 0]

\* a < b and a <= b on floats: every comparison with NaN is false.
Lt(a, b) == a.kind = "num" /\ b.kind = "num" /\ a.ms < b.ms
Le(a, b) == a.kind = "num" /\ b.kind = "num" /\ a.ms <= b.ms

\* The texts typed into an interval entry, and float(text).
Texts == {"0.009", "60.0", "60.001", "nan", "abc"}

Float(text) ==
    CASE text = "0.009" -> Num(9)
      [] text = "0.01" -> Num(10)
      [] text = "0.1" -> Num(100)
      [] text = "0.5" -> Num(500)
      [] text = "60.0" -> Num(60000)
      [] text = "60.001" -> Num(60001)
      [] text = "nan" -> NaN
      [] OTHER -> ValueError

\* str(x) of a float, the text an interval entry is created with.
Str(x) ==
    CASE x.kind = "nan" -> "nan"
      [] x.ms = 9 -> "0.009"
      [] x.ms = 10 -> "0.01"
      [] x.ms = 100 -> "0.1"
      [] x.ms = 500 -> "0.5"
      [] x.ms = 60000 -> "60.0"
      [] OTHER -> "60.001"

DefaultInterval(s) ==
    CASE s = "clicker1" -> Num(DEFAULT_CLICKER1_INTERVAL)
      [] s = "clicker2" -> Num(DEFAULT_CLICKER2_INTERVAL)
      [] OTHER -> Num(DEFAULT_KEYPRESSER_INTERVAL)

\* A value of the JSON document: a number, NaN (json.load accepts it), a
\* string, null, or a key that is missing.
JsonNum(ms) == [kind |-> "num", ms |-> ms, text |-> ""]
JsonNaN == [kind |-> "nan", ms |-> 0, text |-> ""]
JsonStr(text) == [kind |-> "str", ms |-> 0, text |-> text]
JsonNull == [kind |-> "null", ms |-> 0, text |-> ""]
JsonMissing == [kind |-> "missing", ms |-> 0, text |-> ""]

\* float(v) of a JSON value.
JsonFloat(v) ==
    CASE v.kind = "num" -> Num(v.ms)
      [] v.kind = "nan" -> NaN
      [] v.kind = "str" -> Float(v.text)
      [] v.kind = "int" -> Num(1000 * v.ms)
      [] v.kind = "bool" -> Num(1000 * v.ms)
      [] v.kind = "bigint" -> OverflowError
      [] OTHER -> TypeError

\* json.dump of a float.
JsonOfFloat(x) == IF x.kind = "nan" THEN JsonNaN ELSE JsonNum(x.ms)

\* _validate_interval(interval, default), interval a float already, or the
\* exception float() raised: ValueError and TypeError are caught and give
\* the default, OverflowError is not caught.
ValidFloat(x, default) ==
    IF x.kind = "OverflowError" THEN x
    ELSE IF Le(Num(MIN_INTERVAL), x) /\ Le(x, Num(MAX_INTERVAL)) THEN x ELSE default

\* _validate_interval(config.get(field, current), default).
_validate_interval(v, current, default) ==
    IF v.kind = "missing" THEN ValidFloat(current, default)
    ELSE ValidFloat(JsonFloat(v), default)

\* ------------------------------------------------ keys and their JSON form
\* The key objects of pynput: a member of the enum Key (it has a name), a
\* KeyCode (it has a char, None for a key known by its virtual code only),
\* and an object that has neither attribute.
KeyNames == Keys \cup {"space"}
Chars == {"a", "8"}

Special(name) == [kind |-> "Key", name |-> name, char |-> ""]
KeyCode(char) == [kind |-> "KeyCode", name |-> "", char |-> char]
KeyCodeNoChar == [kind |-> "KeyCode", name |-> "", char |-> "None"]
OtherObject == [kind |-> "other", name |-> "", char |-> ""]

KeyObjects ==
    {Special(n) : n \in KeyNames} \cup {KeyCode(c) : c \in Chars} \cup
    {KeyCodeNoChar, OtherObject}

\* Further JSON values: an integer, an integer too large for a float, a bool.
JsonInt(n) == [kind |-> "int", ms |-> n, text |-> ""]
JsonBigInt == [kind |-> "bigint", ms |-> 0, text |-> ""]
JsonBool(b) == [kind |-> "bool", ms |-> IF b THEN 1 ELSE 0, text |-> ""]

\* The value of a hotkey entry of the document: a JSON object with the
\* members type, name and char (each may be missing), a value that is no
\* object, or no entry at all.
KeyData(type, name, char) == [kind |-> "dict", type |-> type, name |-> name, char |-> char]
NotADict == [kind |-> "other", type |-> JsonMissing, name |-> JsonMissing, char |-> JsonMissing]
NoKey == [kind |-> "missing", type |-> JsonMissing, name |-> JsonMissing, char |-> JsonMissing]

\* len(text) of the texts a char member is given.
str_len(text) == IF text = "" THEN 0 ELSE IF text \in Chars THEN 1 ELSE 2

\* _serialize_key: by name if the key has one, else by char, else F6.
_serialize_key(key) ==
    IF key.kind = "Key"
    THEN KeyData(JsonStr("special"), JsonStr(key.name), JsonMissing)
    ELSE IF key.kind = "KeyCode"
    THEN KeyData(JsonStr("char"), JsonMissing,
                 IF key.char = "None" THEN JsonNull ELSE JsonStr(key.char))
    ELSE KeyData(JsonStr("special"), JsonStr("f6"), JsonMissing)

\* getattr(Key, name, Key.f6): the member of that name; an attribute of the
\* enum class that is no member is returned as it is; else F6.
ClassAttributes == {"__doc__"}

getattr(name) ==
    IF name \in KeyNames THEN Special(name)
    ELSE IF name \in ClassAttributes THEN OtherObject
    ELSE Special("f6")

\* Mutant: the char branch without the test len(char) == 1.
deserialize_char_any(char) ==
    IF char.kind = "str" /\ char.text # "" THEN KeyCode(char.text) ELSE Special("f6")

\* _deserialize_key, the branch key_type == 'char': a string of one
\* character becomes a KeyCode, anything else F6.
deserialize_char(char) ==
    IF char.kind = "str" /\ char.text # "" /\ str_len(char.text) = 1
    THEN KeyCode(char.text)
    ELSE Special("f6")

\* _deserialize_key: F6 unless key_data is a dict whose type (default
\* 'special') is a string; then by name (default 'f6') or by char.
_deserialize_key(key_data) ==
    IF key_data.kind # "dict" THEN Special("f6")
    ELSE LET key_type == IF key_data.type.kind = "missing" THEN JsonStr("special")
                         ELSE key_data.type
             name == IF key_data.name.kind = "missing" THEN JsonStr("f6")
                     ELSE key_data.name
         IN  IF key_type.kind # "str" THEN Special("f6")
             ELSE IF key_type.text = "special"
             THEN IF name.kind # "str" THEN Special("f6") ELSE getattr(name.text)
             ELSE IF key_type.text = "char" THEN deserialize_char(key_data.char)
             ELSE Special("f6")

\* The serialized forms _deserialize_key is checked with.
KeyDatas ==
    {NotADict} \cup
    {KeyData(t, n, c) :
        t \in {JsonMissing, JsonStr("special"), JsonStr("char"), JsonStr("unknown"), JsonInt(1)},
        n \in {JsonMissing, JsonStr("f7"), JsonStr("nosuchkey"), JsonStr("__doc__"), JsonInt(1)},
        c \in {JsonMissing, JsonStr("a"), JsonStr("ab"), JsonStr(""), JsonInt(1)}}

\* A call of _serialize_key on key followed by _deserialize_key, or a call of
\* _deserialize_key on data: the argument, then the results.
KeyCall(key, data, pc) == [key |-> key, data |-> data, pc |-> pc, out |-> OtherObject]

InitKey == keyio = KeyCall(OtherObject, NoKey, "idle")

\* The configuration file: absent, a JSON object, or not parsable.
NoConfigFile ==
    [state |-> "absent", interval |-> [s \in Slots |-> JsonMissing],
     hotkey |-> [t \in Targets |-> NoKey]]

CorruptConfigFile == [NoConfigFile EXCEPT !.state = "corrupt"]

\* The documents load_config is checked with: every interval field drawn
\* from JsonFields, no hotkey fields.
JsonFields == {JsonMissing, JsonNum(10), JsonNum(60001), JsonNaN, JsonStr("abc")}

ConfigDocs ==
    {NoConfigFile, CorruptConfigFile} \cup
    {[state |-> "json", interval |-> f, hotkey |-> [t \in Targets |-> NoKey]] :
        f \in [Slots -> JsonFields]}

\* load_config, the intervals: nothing is loaded from an absent or corrupt
\* file, else each field is validated against its default.
load_config(doc) ==
    [s \in Slots |->
        IF doc.state = "json"
        THEN _validate_interval(doc.interval[s], DefaultInterval(s), DefaultInterval(s))
        ELSE DefaultInterval(s)]

\* save_config: the file after the call.  The write opens the file with
\* mode 'w' and dumps the intervals iv and the hotkeys hk; every exception is
\* caught: "open_failed" leaves the file as it was, "dump_failed" leaves it
\* truncated.
SaveResults == {"ok", "open_failed", "dump_failed"}

save_config(r, iv, hk) ==
    CASE r = "ok" -> [state |-> "json",
                      interval |-> [s \in Slots |-> JsonOfFloat(iv[s])],
                      hotkey |-> [t \in Targets |-> _serialize_key(Special(hk[t]))]]
      [] r = "open_failed" -> config
      [] OTHER -> CorruptConfigFile

\* The last message box shown by _apply_interval.
NoDialog == [title |-> "none", name |-> "none"]

\* __init__ up to load_config, with the configuration file doc; setup_ui.
InitConfig(doc) ==
    /\ config = doc
    /\ interval = load_config(doc)
    /\ interval_var = [s \in Slots |-> Str(load_config(doc)[s])]
    /\ dialog = NoDialog

\* ------------------------------------------------ the update pipeline: data
\* The threads that run _apply_update (one per "Update Now" click).
Runs == {1, 2}

\* Byte strings: the installed script, two candidate artifacts, and the
\* content of a file whose write did not complete.
Contents == {"old", "new", "evil", "partial"}
Artifacts == {"new", "evil"}

\* hashlib.sha256(content).hexdigest().lower(): 64 lowercase hex characters,
\* different for different contents.
Sha256(content) ==
    CASE content = "old" -> "sha_old"
      [] content = "new" -> "sha_new"
      [] content = "evil" -> "sha_evil"
      [] OTHER -> "sha_partial"

\* The first token of a checksum file: len characters, all of them hex digits
\* or not, in upper or lower case, spelling the digest `digest`; len 0 is
\* the file with no token.
Token(digest, upper, len, hex) ==
    [digest |-> digest, upper |-> upper, len |-> len, hex |-> hex]

Tokens ==
    {Token(Sha256(c), FALSE, 64, TRUE) : c \in Artifacts} \cup
    {Token("sha_new", TRUE, 64, TRUE), Token("sha_new", FALSE, 63, TRUE),
     Token("sha_new", FALSE, 64, FALSE), Token("sha_new", FALSE, 0, TRUE)}

\* str.lower() of a token.
Lower(t) == [t EXCEPT !.upper = FALSE]

\* What urlopen(checksum_request) does: it raises HTTPError with code 404 or
\* another code, it raises URLError, or it returns a file with a token.
ChecksumResponses ==
    {[status |-> st, token |-> Token("sha_new", FALSE, 0, TRUE)] :
        st \in {"404", "HTTPError", "URLError"}} \cup
    {[status |-> "ok", token |-> t] : t \in Tokens}

\* No checksum file has been read.
NoToken == Token("none", FALSE, 0, FALSE)

\* _apply_update before its thread is started, and when it starts.  The
\* locals, and three history values: verified (the comparison in memory
\* succeeded), written_verified (the comparison of the re-read file
\* succeeded), backed_up (the backup copy succeeded).
IdleRun ==
    [pc |-> "idle", checksum_content |-> NoToken,
     expected_checksum |-> "none", content |-> "none",
     tmp_path |-> FALSE, outcome |-> "none", warned |-> FALSE,
     verified |-> FALSE, written_verified |-> FALSE, backed_up |-> FALSE]

InitUpdate ==
    /\ files = [script |-> "old", tmp |-> "absent", backup |-> "absent"]
    /\ upd = [r \in Runs |-> IdleRun]

\* ------------------------------------------------ load_config, every field
\* The two programs: autoclicker.py has the two clickers and the setting
\* auto_check_updates, autoclicker_evdev.py the three slots, the emergency
\* stop and the target key of the key presser.
Programs == {"autoclicker.py", "autoclicker_evdev.py"}
ProgSlots(p) == IF p = "autoclicker.py" THEN Clickers ELSE Slots
ProgTargets(p) == IF p = "autoclicker.py" THEN Clickers ELSE Targets

KEY_SPACE == 57      \* evdev.ecodes.KEY_SPACE
MaxKeyCode == 255    \* the largest key code load_config accepts

DefaultHotkey(t) ==
    CASE t = "clicker1" -> "f6"
      [] t = "clicker2" -> "f7"
      [] t = "keypresser" -> "f8"
      [] OTHER -> "f9"

DefaultDisplay(t) ==
    CASE t = "clicker1" -> "F6"
      [] t = "clicker2" -> "F7"
      [] t = "keypresser" -> "F8"
      [] OTHER -> "F9"

\* The attributes load_config sets, with the values __init__ gives them.
\* A display attribute holds whatever JSON value was assigned to it.
DefaultAttrs ==
    [interval |-> [s \in Slots |-> DefaultInterval(s)],
     hotkey |-> [t \in Targets |-> Special(DefaultHotkey(t))],
     display |-> [t \in Targets |-> JsonStr(DefaultDisplay(t))],
     keypresser_target_key |-> JsonInt(KEY_SPACE),
     auto_check_updates |-> TRUE]

\* A document with every field well formed and different from its default.
BaseDocument ==
    [state |-> "json",
     interval |-> [s \in Slots |-> JsonNum(MAX_INTERVAL)],
     hotkey |-> [t \in Targets |-> _serialize_key(KeyCode("a"))],
     display |-> [t \in Targets |-> JsonStr("A")],
     keypresser_target_key |-> JsonInt(30),
     auto_check_updates |-> JsonBool(FALSE)]

\* Malformed values of each kind of field.
MalformedIntervals == {JsonStr("abc"), JsonNull, JsonNum(60001), JsonNaN, JsonBigInt}
MalformedKeys ==
    {NotADict,
     KeyData(JsonInt(1), JsonStr("f7"), JsonMissing),
     KeyData(JsonStr("unknown"), JsonStr("f7"), JsonMissing),
     KeyData(JsonStr("special"), JsonInt(1), JsonMissing),
     KeyData(JsonStr("char"), JsonMissing, JsonStr("ab")),
     KeyData(JsonStr("char"), JsonMissing, JsonMissing)}
MalformedDisplays == {JsonInt(1), JsonNull}
MalformedTargetKeys == {JsonInt(MaxKeyCode + 1), JsonStr("abc"), JsonNull, JsonBool(TRUE)}
MalformedFlags == {JsonNull, JsonStr("abc"), JsonInt(0)}

\* The documents load_config is checked with: the file is absent, is not
\* JSON, cannot be read, holds a JSON value that is no object, or holds the
\* base document with at most one field made malformed.
Documents ==
    {[BaseDocument EXCEPT !.state = st] :
        st \in {"absent", "corrupt", "unreadable", "not_object", "json"}} \cup
    {[BaseDocument EXCEPT !.interval[s] = v] : s \in Slots, v \in MalformedIntervals} \cup
    {[BaseDocument EXCEPT !.hotkey[t] = v] : t \in Targets, v \in MalformedKeys} \cup
    {[BaseDocument EXCEPT !.display[t] = v] : t \in Targets, v \in MalformedDisplays} \cup
    {[BaseDocument EXCEPT !.keypresser_target_key = v] : v \in MalformedTargetKeys} \cup
    {[BaseDocument EXCEPT !.auto_check_updates = v] : v \in MalformedFlags}

\* The order in which load_config reads the intervals.
SlotOrder == <<"clicker1", "clicker2", "keypresser">>

\* The call of _validate_interval for slot s raises (OverflowError).
IntervalRaises(doc, attrs, s) ==
    _validate_interval(doc.interval[s], attrs.interval[s], DefaultInterval(s)).kind
        = "OverflowError"

\* The exception that ends the try block of load_config, "none" if it runs
\* to its end: json.load raises JSONDecodeError, open raises IOError,
\* config.get raises AttributeError on a value that is no object, and
\* _validate_interval lets an OverflowError through.
load_exception(p, doc, attrs) ==
    CASE doc.state = "corrupt" -> "JSONDecodeError"
      [] doc.state = "unreadable" -> "IOError"
      [] doc.state = "not_object" -> "AttributeError"
      [] \E s \in ProgSlots(p) : IntervalRaises(doc, attrs, s) -> "OverflowError"
      [] OTHER -> "none"

\* The intervals assigned before the try block ends: those read before the
\* first call of _validate_interval that raises.
load_intervals(p, doc, attrs) ==
    [s \in Slots |->
        IF /\ s \in ProgSlots(p)
           /\ \A i \in 1..Len(SlotOrder) :
                 (SlotOrder[i] \in ProgSlots(p) /\ IntervalRaises(doc, attrs, SlotOrder[i]))
                    => \E j \in 1..(i - 1) : SlotOrder[j] = s
        THEN _validate_interval(doc.interval[s], attrs.interval[s], DefaultInterval(s))
        ELSE attrs.interval[s]]

\* The display of a hotkey the document has: autoclicker.py keeps the value
\* if it is a string, else the default; autoclicker_evdev.py assigns
\* config.get(name, default) as it is.
load_display(p, v, default) ==
    IF v.kind = "missing" THEN JsonStr(default)
    ELSE IF p = "autoclicker.py" THEN (IF v.kind = "str" THEN v ELSE JsonStr(default))
    ELSE v

\* The target key: the value is kept if isinstance(value, int) (a bool is
\* an int) and 0 <= value <= 255.
load_target_key(v, current) ==
    IF v.kind = "missing" THEN current
    ELSE IF v.kind \in {"int", "bool"} /\ 0 <= v.ms /\ v.ms <= MaxKeyCode THEN v
    ELSE current

\* bool(value) of a JSON value.
bool(v) ==
    CASE v.kind \in {"int", "bool", "num"} -> v.ms # 0
      [] v.kind = "str" -> v.text # ""
      [] v.kind = "null" -> FALSE
      [] OTHER -> TRUE

\* The attributes after load_config for program p with the file doc.
load_attrs(p, doc, attrs) ==
    IF doc.state # "json" THEN attrs
    ELSE IF load_exception(p, doc, attrs) # "none"
    THEN [attrs EXCEPT !.interval = load_intervals(p, doc, attrs)]
    ELSE [interval |-> load_intervals(p, doc, attrs),
          hotkey |-> [t \in Targets |->
                        IF t \in ProgTargets(p) /\ doc.hotkey[t].kind # "missing"
                        THEN _deserialize_key(doc.hotkey[t])
                        ELSE attrs.hotkey[t]],
          display |-> [t \in Targets |->
                        IF t \in ProgTargets(p) /\ doc.hotkey[t].kind # "missing"
                        THEN load_display(p, doc.display[t], DefaultDisplay(t))
                        ELSE attrs.display[t]],
          keypresser_target_key |->
              IF p = "autoclicker_evdev.py"
              THEN load_target_key(doc.keypresser_target_key, attrs.keypresser_target_key)
              ELSE attrs.keypresser_target_key,
          auto_check_updates |->
              IF p = "autoclicker.py" /\ doc.auto_check_updates.kind # "missing"
              THEN bool(doc.auto_check_updates)
              ELSE attrs.auto_check_updates]

\* The except clauses of load_config: what is printed; "raised" would be an
\* exception that none of them catches.
except_load(exc) ==
    CASE exc = "none" -> "none"
      [] exc = "JSONDecodeError" -> "Error: Config file is corrupted"
      [] exc = "IOError" -> "Error: Cannot read config file"
      [] OTHER -> "Error loading config"

\* __init__ of program p before load_config, with the file doc.
NotLoaded(p, doc) ==
    [program |-> p, doc |-> doc, pc |-> "init", attrs |-> DefaultAttrs,
     printed |-> "none"]

InitLoad == loaded = NotLoaded("autoclicker_evdev.py", [BaseDocument EXCEPT !.state = "absent"])

\* ------------------------------------------------ version strings: data
\* A str is a sequence of one-character strings; an argument of
\* _version_newer is None or a str.
None == [none |-> TRUE, text |-> << >>]
S(text) == [none |-> FALSE, text |-> text]

Digits == {"0", "1", "2", "3", "4", "5", "6", "7", "8", "9"}

\* c.isdigit(), and the value of a digit.
isdigit(c) == c \in Digits

DigitValue(c) ==
    CASE c = "0" -> 0 [] c = "1" -> 1 [] c = "2" -> 2 [] c = "3" -> 3
      [] c = "4" -> 4 [] c = "5" -> 5 [] c = "6" -> 6 [] c = "7" -> 7
      [] c = "8" -> 8 [] OTHER -> 9

\* int(digits) of a run of digits; the code calls it on a non-empty run.
RECURSIVE int(_)
int(digits) ==
    IF digits = << >> THEN 0
    ELSE 10 * int(SubSeq(digits, 1, Len(digits) - 1)) + DigitValue(digits[Len(digits)])

\* int(part) does not raise ValueError: part is a non-empty run of digits
\* (the strings of the model have no sign, blank or underscore).
IsInt(part) == part # << >> /\ \A i \in 1..Len(part) : isdigit(part[i])

\* version_str.lstrip('v'): every leading 'v' is removed.
RECURSIVE lstrip(_, _)
lstrip(s, c) == IF s # << >> /\ Head(s) = c THEN lstrip(Tail(s), c) ELSE s

\* s.find(sep): the first position of sep, 0 if there is none.
find(s, sep) ==
    IF \E i \in 1..Len(s) : s[i] = sep
    THEN CHOOSE i \in 1..Len(s) : s[i] = sep /\ \A j \in 1..(i - 1) : s[j] # sep
    ELSE 0

\* s.split(sep): the pieces between the separators.
RECURSIVE split(_, _)
split(s, sep) ==
    IF find(s, sep) = 0 THEN <<s>>
    ELSE <<SubSeq(s, 1, find(s, sep) - 1)>> \o
         split(SubSeq(s, find(s, sep) + 1, Len(s)), sep)

\* The loop over the characters of a part: its leading run of digits.
RECURSIVE leading_digits(_)
leading_digits(part) ==
    IF part = << >> \/ ~isdigit(Head(part)) THEN << >>
    ELSE <<Head(part)>> \o leading_digits(Tail(part))

\* Mutant: a part that int() rejects counts as 0, whatever digits lead it.
parse_part_no_digits(part) == IF IsInt(part) THEN int(part) ELSE 0

\* One component of the main part: int(part), or on ValueError the leading
\* digits, 0 if there are none.
parse_part(part) == IF IsInt(part) THEN int(part) ELSE int(leading_digits(part))

\* Mutant: only the digits that lead the suffix are read.
pre_release_num_leading(pre_release) == int(leading_digits(pre_release))

\* ''.join(c for c in pre_release if c.isdigit()), then int, 0 if empty.
pre_release_num(pre_release) == int(SelectSeq(pre_release, isdigit))

\* The tuple parse_version returns: three integers, the fourth element (the
\* str '' for an argument that is None or empty, else the bool
\* pre_release == ''), and the pre-release number.
Parsed(parts, fourth, num) == [parts |-> parts, fourth |-> fourth, num |-> num]

parse_version(version_str) ==
    IF version_str.none \/ version_str.text = << >>
    THEN Parsed(<<0, 0, 0>>, "str", 0)
    ELSE LET stripped == lstrip(version_str.text, "v")
             dash == find(stripped, "-")
             main_part == IF dash = 0 THEN stripped ELSE SubSeq(stripped, 1, dash - 1)
             pre_release == IF dash = 0 THEN << >>
                            ELSE SubSeq(stripped, dash + 1, Len(stripped))
             pieces == split(main_part, ".")
             parts == [i \in 1..Len(pieces) |-> parse_part(pieces[i])] \o
                      [i \in 1..(3 - Len(pieces)) |-> 0]
         IN  Parsed(SubSeq(parts, 1, 3),
                    IF pre_release = << >> THEN "True" ELSE "False",
                    pre_release_num(pre_release))

\* x > y on two such tuples, as Python compares tuples: the first position
\* where they differ decides; a str and a bool there raise TypeError.
tuple_gt(x, y) ==
    IF x.parts # y.parts
    THEN LET i == CHOOSE i \in 1..3 : x.parts[i] # y.parts[i] /\
                      \A j \in 1..(i - 1) : x.parts[j] = y.parts[j]
         IN  IF x.parts[i] > y.parts[i] THEN "True" ELSE "False"
    ELSE IF x.fourth # y.fourth
    THEN IF "str" \in {x.fourth, y.fourth} THEN "TypeError"
         ELSE IF x.fourth = "True" THEN "True" ELSE "False"
    ELSE IF x.num > y.num THEN "True" ELSE "False"

\* _version_newer(latest, current): the comparison, False if it raised.
_version_newer(latest, current) ==
    tuple_gt(parse_version(latest), parse_version(current)) = "True"

\* __version__
V1_4_0 == S(<<"1", ".", "4", ".", "0">>)

\* The arguments _version_newer is checked with.
Versions ==
    {None, S(<< >>), S(<<"v">>), S(<<"a", "b">>),
     S(<<"0", ".", "0", ".", "0">>),
     S(<<"0", ".", "0", ".", "0", "-", "b">>),
     S(<<"1", ".", "0">>),
     S(<<"v", "1", ".", "0", ".", "0">>),
     S(<<"1", ".", "0", ".", "0", "-", "b">>),
     S(<<"1", ".", "0", ".", "0", "-", "b", "2">>),
     S(<<"1", ".", "0", ".", "0", "-", "a", "1", "b", "0">>),
     S(<<"1", ".", "1", ".", "0">>),
     S(<<"1", ".", "4", "a", ".", "0">>),
     S(<<"1", ".", "1", "0", ".", "0">>),
     S(<<"v", "1", ".", "1", "0">>),
     S(<<"2">>)}

\* The ordered pairs of the three arguments a, b, c of a check.
Pairs == {<<"a", "b">>, <<"b", "a">>, <<"b", "c">>, <<"c", "b">>,
          <<"a", "c">>, <<"c", "a">>, <<"a", "a">>}

\* Three arguments, _version_newer not called on them yet.
NotCompared(a, b, c) ==
    [a |-> a, b |-> b, c |-> c, called |-> FALSE, newer |-> [p \in Pairs |-> FALSE]]

InitVersion == ver = NotCompared(None, None, None)

\* ------------------------------------------------ the update check: data
\* The threads that run _check_for_updates.
Checks == {1, 2}

\* The value of 'tag_name' in the release document: missing, not a string,
\* or a string.
NoTag == [kind |-> "missing", text |-> << >>]
NumberTag == [kind |-> "number", text |-> << >>]
Tag(text) == [kind |-> "str", text |-> text]

\* What urlopen / json.loads do: urlopen raises URLError, the body is not
\* JSON, the document is not an object, or it is an object with a tag.
FeedResponses ==
    {[status |-> st, tag_name |-> NoTag] : st \in {"URLError", "bad_json", "not_object"}} \cup
    {[status |-> "object", tag_name |-> t] :
        t \in {NoTag, NumberTag, Tag(<<"v">>),
               Tag(<<"v", "1", ".", "4", ".", "0">>),
               Tag(<<"v", "1", ".", "5", ".", "0">>)}}

\* The exception the try block raises before the comparison, "none" if it
\* gets there: URLError from urlopen, JSONDecodeError from json.loads,
\* AttributeError from data.get or from lstrip on a tag that is no string,
\* ValueError from the `raise` on an empty latest_version.
fetch_exception(resp) ==
    CASE resp.status = "URLError" -> "URLError"
      [] resp.status = "bad_json" -> "JSONDecodeError"
      [] resp.status = "not_object" -> "AttributeError"
      [] resp.tag_name.kind = "number" -> "AttributeError"
      [] resp.tag_name.kind = "missing" -> "ValueError"
      [] lstrip(resp.tag_name.text, "v") = << >> -> "ValueError"
      [] OTHER -> "none"

\* _check_for_updates before its thread is started.  after: the callback it
\* passed to window.after; shown: the box the main thread has shown for it.
IdleCheck ==
    [pc |-> "idle", silent |-> TRUE, exc |-> "none", latest_version |-> None,
     after |-> "none", shown |-> "none"]

InitCheck == chk = [r \in Checks |-> IdleCheck]

\* The Tk window: it exists until on_closing destroys it; the slots whose
\* worker on_closing reported as not exited.
InitWindow == window = [exists |-> TRUE, warned |-> {}]

\* __init__: defaults, no configuration file, then start_keyboard_listener().
\* No worker loop runs yet.  Of each slot: the values of the local variable
\* `interval` of the workers that are between the loop top and the sleep,
\* and the time the slot's workers sleep between two actions: the argument
\* of the last time.sleep call, before the first call the slot's interval.
InitLoop == loop = [s \in Slots |-> [interval |-> << >>, sleep |-> interval[s]]]

\* ------------------------------------------------- locks and file operations
\* The threads: the Tk main thread, the thread of the dispatch listener, the
\* thread of the capture listener, and the worker thread of each slot (named
\* after the slot).  The locks: a slot's lock is named after the slot.
Threads == {"ui", "dispatch", "capture"} \cup Slots
Locks == Slots \cup {"hotkey_capture"}

\* What a call does to the locks and to the configuration file, in program
\* order: lock.acquire(), lock.release(), and the operations the claims name:
\* the actuator call and the sleep of a worker, and open / json.dump / close
\* of save_config.  Statements that touch neither are left out.
Acq(l) == <<"acquire", l>>
Rel(l) == <<"release", l>>
Op(name) == <<"do", name>>

\* `with lock:` around body (a return inside the block releases the lock).
With(l, body) == <<Acq(l)>> \o body \o <<Rel(l)>>

\* stop_clicker1 / stop_clicker2 / stop_keypresser.
stop_path(s) == With(s, << >>)

\* Mutant: start_clicker1 / start_clicker2 stopping the sibling inside their
\* own `with` block.
start_path_nested(s) ==
    With(s, IF Sibling(s) \in Slots THEN stop_path(Sibling(s)) ELSE << >>)

\* start_clicker1 / start_clicker2 / start_keypresser.
start_path(s) == With(s, << >>)

\* toggle_*: the flag read under the lock, then stop, or stop the sibling
\* (the clickers) and start.
toggle_paths(s) ==
    {With(s, << >>) \o stop_path(s),
     With(s, << >>)
        \o (IF Sibling(s) \in Slots THEN stop_path(Sibling(s)) ELSE << >>)
        \o start_path(s)}

\* emergency_stop_all, and the three stop calls on_closing begins with.
emergency_stop_all_path ==
    stop_path("clicker1") \o stop_path("clicker2") \o stop_path("keypresser")

\* on_hotkey_press with a key that matches: the emergency stop or a toggle.
on_hotkey_press_paths ==
    {emergency_stop_all_path} \cup UNION {toggle_paths(s) : s \in Slots}

\* One iteration of _click_loop1 / _click_loop2 / _keypresser_loop: break at
\* the loop top; or the action and the sleep; or the action raises and the
\* except branch clears the flag under the lock.
click_loop_paths(s) ==
    {With(s, << >>),
     With(s, << >>) \o <<Op("actuate"), Op("sleep")>>,
     With(s, << >>) \o <<Op("actuate")>> \o With(s, << >>)}

\* save_config: `with open(self.config_path, 'w') as f: json.dump(config, f)`.
save_config_path == <<Op("open"), Op("write"), Op("close")>>

\* start_hotkey_capture: the early return, or both critical sections.
start_hotkey_capture_paths ==
    {With("hotkey_capture", << >>),
     With("hotkey_capture", << >>) \o With("hotkey_capture", << >>)}

\* capture_hotkey: the early return, or the critical section, the
\* assignment and save_config.
capture_hotkey_paths ==
    {With("hotkey_capture", << >>),
     With("hotkey_capture", << >>) \o save_config_path}

\* _apply_interval with an accepted value: setattr under the slot's lock,
\* then save_config.
apply_interval_path(s) == With(s, << >>) \o save_config_path

\* The calls a thread makes.
Calls(t) ==
    CASE t = "ui" -> start_hotkey_capture_paths
                        \cup {apply_interval_path(s) : s \in Slots}
                        \cup {emergency_stop_all_path}
      [] t = "dispatch" -> on_hotkey_press_paths
      [] t = "capture" -> capture_hotkey_paths
      [] OTHER -> click_loop_paths(t)

\* No lock is held, no thread is inside a call.
InitLock ==
    /\ lock = [l \in Locks |-> "free"]
    /\ thread = [t \in Threads |-> << >>]

InitRest ==
    /\ InitCheck /\ InitVersion /\ InitKey /\ InitLoad /\ InitWindow
    /\ InitLoop /\ InitLock

Init ==
    /\ InitConfig(NoConfigFile)
    /\ InitUpdate
    /\ InitEngine
    /\ InitRest

\* __init__ with an arbitrary configuration file.
InitCfg ==
    /\ \E doc \in ConfigDocs : InitConfig(doc)
    /\ InitUpdate
    /\ InitEngine
    /\ InitRest

\* __init__ with a configuration file that binds every target to F6 or F9
\* (F6 is also what _deserialize_key makes of a malformed entry): the
\* hotkeys are those load_config reads from it.
BoundKeys == {"f6", "f9"}

InitBound ==
    /\ \E hk \in [Targets -> BoundKeys] :
          /\ InitConfig([state |-> "json",
                         interval |-> [s \in Slots |-> JsonMissing],
                         hotkey |-> [t \in Targets |-> _serialize_key(Special(hk[t]))]])
          /\ hotkey = [t \in Targets |-> _deserialize_key(config.hotkey[t]).name]
    /\ InitUpdate
    /\ InitIdle
    /\ InitRest

\* ------------------------------------------------------------- the clock
Tick(d) ==
    /\ now + d <= MaxTime
    /\ now' = now + d
    /\ UNCHANGED <<clicking, status, workers, hotkey, last_hotkey_time,
                   listening_for_hotkey, hotkey_target, keyboard_listener,
                   hotkey_capture_listener, listener, ui, afterQueue>>
    /\ UNCHANGED <<cfgVars, updVars, restVars>>

\* --------------------------------------------------- start / stop of a slot
\* start_clicker1 / start_clicker2 / start_keypresser: one critical section.
StartSlot(s) ==
    IF ~clicking[s]
    THEN /\ clicking' = [clicking EXCEPT ![s] = TRUE]
         /\ status' = [status EXCEPT ![s] = "Running"]
         /\ workers' = [workers EXCEPT ![s]["check"] = @ + 1]
    ELSE UNCHANGED slotVars

\* Mutant: stop without the `if self.clicker1_clicking` test.
StopSlotUnconditional(s) ==
    /\ clicking' = [clicking EXCEPT ![s] = FALSE]
    /\ status' = [status EXCEPT ![s] = "Idle"]
    /\ UNCHANGED workers

\* stop_clicker1 / stop_clicker2 / stop_keypresser: one critical section.
StopSlot(s) ==
    IF clicking[s]
    THEN /\ clicking' = [clicking EXCEPT ![s] = FALSE]
         /\ status' = [status EXCEPT ![s] = "Idle"]
         /\ UNCHANGED workers
    ELSE UNCHANGED slotVars

\* ------------------------------------------------------- hotkey dispatch
\* A dispatch listener delivers a key press: its thread enters on_hotkey_press.
KeyEvent(i, key) ==
    /\ listener[i].kind = "dispatch"
    /\ listener[i].running
    /\ listener[i].pc = "idle"
    /\ listener' = [listener EXCEPT ![i].pc = "rate", ![i].key = key]
    /\ UNCHANGED <<clicking, status, workers, hotkey, last_hotkey_time, now,
                   listening_for_hotkey, hotkey_target, keyboard_listener,
                   hotkey_capture_listener, ui, afterQueue>>
    /\ UNCHANGED <<cfgVars, updVars, restVars>>

\* Mutant: the cooldown comparison reversed.
RateLimitedReversed(key, t) ==
    /\ key \in DOMAIN last_hotkey_time
    /\ t - last_hotkey_time[key] > hotkey_cooldown

\* The rate limiter of on_hotkey_press: too soon after the key's last dispatch.
RateLimited(key, t) ==
    /\ key \in DOMAIN last_hotkey_time
    /\ t - last_hotkey_time[key] < hotkey_cooldown

\* Mutant: the chain in the reverse order, the key presser first.
MatchReversed(key) ==
    IF key = hotkey["keypresser"] THEN "keypresser"
    ELSE IF key = hotkey["clicker2"] THEN "clicker2"
    ELSE IF key = hotkey["clicker1"] THEN "clicker1"
    ELSE IF key = hotkey["emergency_stop"] THEN "emergency_stop"
    ELSE "none"

\* The if/elif chain of on_hotkey_press: the one target a key acts on.
Match(key) ==
    IF key = hotkey["emergency_stop"] THEN "emergency_stop"
    ELSE IF key = hotkey["clicker1"] THEN "clicker1"
    ELSE IF key = hotkey["clicker2"] THEN "clicker2"
    ELSE IF key = hotkey["keypresser"] THEN "keypresser"
    ELSE "none"

\* on_hotkey_press up to the call it makes: rate limiting, then the match.
OnHotkeyPress(i) ==
    /\ listener[i].pc = "rate"
    /\ LET key == listener[i].key IN
       IF RateLimited(key, now)
       THEN /\ listener' = [listener EXCEPT ![i].pc = "idle", ![i].key = "none"]
            /\ UNCHANGED last_hotkey_time
       ELSE /\ last_hotkey_time' =
                  [k \in DOMAIN last_hotkey_time \cup {key} |->
                     IF k = key THEN now ELSE last_hotkey_time[k]]
            /\ listener' = [listener EXCEPT
                  ![i].key = "none",
                  ![i].slot = IF Match(key) \in Slots THEN Match(key) ELSE "none",
                  ![i].pc = CASE Match(key) = "emergency_stop" -> "estop1"
                              [] Match(key) \in Slots -> "toggle"
                              [] OTHER -> "idle"]
    /\ UNCHANGED <<clicking, status, workers, hotkey, now,
                   listening_for_hotkey, hotkey_target, keyboard_listener,
                   hotkey_capture_listener, ui, afterQueue>>
    /\ UNCHANGED <<cfgVars, updVars, restVars>>

\* toggle_*: read the flag under the slot's lock, then release the lock.
ToggleRead(i) ==
    /\ listener[i].pc = "toggle"
    /\ LET s == listener[i].slot IN
       listener' = [listener EXCEPT
           ![i].sib = Sibling(s) \in Slots /\ clicking[Sibling(s)],
           ![i].pc = IF clicking[s] THEN "stop_self"
                     ELSE IF Sibling(s) \in Slots THEN "stop_sibling"
                     ELSE "start_self"]
    /\ UNCHANGED <<clicking, status, workers, hotkey, last_hotkey_time, now,
                   listening_for_hotkey, hotkey_target, keyboard_listener,
                   hotkey_capture_listener, ui, afterQueue>>
    /\ UNCHANGED <<cfgVars, updVars, restVars>>

\* toggle_*, flag read true: stop the slot; on_hotkey_press returns.
ToggleStopSelf(i) ==
    /\ listener[i].pc = "stop_self"
    /\ StopSlot(listener[i].slot)
    /\ listener' = [listener EXCEPT ![i].pc = "idle", ![i].slot = "none",
                                    ![i].sib = FALSE, ![i].noop = FALSE]
    /\ UNCHANGED <<hotkey, last_hotkey_time, now,
                   listening_for_hotkey, hotkey_target, keyboard_listener,
                   hotkey_capture_listener, ui, afterQueue>>
    /\ UNCHANGED <<cfgVars, updVars, restVars>>

\* toggle_clicker1 / toggle_clicker2, flag read false: stop the sibling first.
ToggleStopSibling(i) ==
    /\ listener[i].pc = "stop_sibling"
    /\ StopSlot(Sibling(listener[i].slot))
    /\ listener' = [listener EXCEPT ![i].pc = "start_self",
                        ![i].noop = ~clicking[Sibling(listener[i].slot)]]
    /\ UNCHANGED <<hotkey, last_hotkey_time, now,
                   listening_for_hotkey, hotkey_target, keyboard_listener,
                   hotkey_capture_listener, ui, afterQueue>>
    /\ UNCHANGED <<cfgVars, updVars, restVars>>

\* toggle_*, flag read false: start the slot; on_hotkey_press returns.
ToggleStartSelf(i) ==
    /\ listener[i].pc = "start_self"
    /\ clicking[listener[i].slot] \/ Alive(listener[i].slot) < MaxWorkers
    /\ StartSlot(listener[i].slot)
    /\ listener' = [listener EXCEPT ![i].pc = "idle", ![i].slot = "none",
                                    ![i].sib = FALSE, ![i].noop = FALSE]
    /\ UNCHANGED <<hotkey, last_hotkey_time, now,
                   listening_for_hotkey, hotkey_target, keyboard_listener,
                   hotkey_capture_listener, ui, afterQueue>>
    /\ UNCHANGED <<cfgVars, updVars, restVars>>

\* emergency_stop_all: stop_clicker1, stop_clicker2, stop_keypresser in turn.
EmergencyStop(i) ==
    /\ listener[i].pc \in {"estop1", "estop2", "estop3"}
    /\ LET s == CASE listener[i].pc = "estop1" -> "clicker1"
                  [] listener[i].pc = "estop2" -> "clicker2"
                  [] OTHER -> "keypresser"
       IN /\ StopSlot(s)
          /\ listener' = [listener EXCEPT
                ![i].noop = IF listener[i].pc = "estop3" THEN FALSE ELSE ~clicking[s],
                ![i].pc = CASE listener[i].pc = "estop1" -> "estop2"
                            [] listener[i].pc = "estop2" -> "estop3"
                            [] OTHER -> "idle"]
    /\ UNCHANGED <<hotkey, last_hotkey_time, now,
                   listening_for_hotkey, hotkey_target, keyboard_listener,
                   hotkey_capture_listener, ui, afterQueue>>
    /\ UNCHANGED <<cfgVars, updVars, restVars>>

\* ------------------------------------------------------------ worker loops
\* The sequence q without its k-th element.
Remove(q, k) == [n \in 1..(Len(q) - 1) |-> IF n < k THEN q[n] ELSE q[n + 1]]

\* Mutant: the loop top without the `if not self.clicker1_clicking: break`.
WorkerCheckIgnoresFlag(s) ==
    /\ workers[s]["check"] > 0
    /\ workers' = [workers EXCEPT ![s]["check"] = @ - 1, ![s]["action"] = @ + 1]
    /\ loop' = [loop EXCEPT ![s].interval = Append(@, interval[s])]
    /\ UNCHANGED <<clicking, status, hotkey, last_hotkey_time, now,
                   listening_for_hotkey, hotkey_target, keyboard_listener,
                   hotkey_capture_listener, listener, ui, afterQueue>>
    /\ UNCHANGED <<cfgVars, updVars, chk, ver, keyio, loaded, window, lockVars>>

\* _click_loop1 / _click_loop2 / _keypresser_loop, loop top: under the slot's
\* lock, leave the loop if the flag is false, else read the slot's interval
\* into the local `interval` and go on to the actuator.
WorkerCheck(s) ==
    /\ workers[s]["check"] > 0
    /\ workers' = [workers EXCEPT
          ![s]["check"] = @ - 1,
          ![s]["action"] = IF clicking[s] THEN @ + 1 ELSE @]
    /\ loop' = [loop EXCEPT
          ![s].interval = IF clicking[s] THEN Append(@, interval[s]) ELSE @]
    /\ UNCHANGED <<clicking, status, hotkey, last_hotkey_time, now,
                   listening_for_hotkey, hotkey_target, keyboard_listener,
                   hotkey_capture_listener, listener, ui, afterQueue>>
    /\ UNCHANGED <<cfgVars, updVars, chk, ver, keyio, loaded, window, lockVars>>

\* Mutant: the sleep taking the slot's interval as it is after the action.
WorkerActSleepsCurrent(s) ==
    /\ workers[s]["action"] > 0
    /\ workers' = [workers EXCEPT ![s]["action"] = @ - 1, ![s]["check"] = @ + 1]
    /\ \E k \in 1..Len(loop[s].interval) :
          loop' = [loop EXCEPT ![s].interval = Remove(@, k),
                               ![s].sleep = interval[s]]
    /\ UNCHANGED <<clicking, status, hotkey, last_hotkey_time, now,
                   listening_for_hotkey, hotkey_target, keyboard_listener,
                   hotkey_capture_listener, listener, ui, afterQueue>>
    /\ UNCHANGED <<cfgVars, updVars, chk, ver, keyio, loaded, window, lockVars>>

\* perform_click / perform_keypress returns; time.sleep(interval), with the
\* local of the worker (the k-th of the slot's workers that are in an
\* iteration); loop top.
WorkerAct(s) ==
    /\ workers[s]["action"] > 0
    /\ workers' = [workers EXCEPT ![s]["action"] = @ - 1, ![s]["check"] = @ + 1]
    /\ \E k \in 1..Len(loop[s].interval) :
          loop' = [loop EXCEPT ![s].interval = Remove(@, k),
                               ![s].sleep = loop[s].interval[k]]
    /\ UNCHANGED <<clicking, status, hotkey, last_hotkey_time, now,
                   listening_for_hotkey, hotkey_target, keyboard_listener,
                   hotkey_capture_listener, listener, ui, afterQueue>>
    /\ UNCHANGED <<cfgVars, updVars, chk, ver, keyio, loaded, window, lockVars>>

\* perform_click / perform_keypress raises: the except branch is entered,
\* the worker's iteration is over.
WorkerRaise(s) ==
    /\ workers[s]["action"] > 0
    /\ workers' = [workers EXCEPT ![s]["action"] = @ - 1, ![s]["failed"] = @ + 1]
    /\ \E k \in 1..Len(loop[s].interval) :
          loop' = [loop EXCEPT ![s].interval = Remove(@, k)]
    /\ UNCHANGED <<clicking, status, hotkey, last_hotkey_time, now,
                   listening_for_hotkey, hotkey_target, keyboard_listener,
                   hotkey_capture_listener, listener, ui, afterQueue>>
    /\ UNCHANGED <<cfgVars, updVars, chk, ver, keyio, loaded, window, lockVars>>

\* Mutant: the except branch without `self.clicker1_clicking = False`.
WorkerFailKeepsFlag(s) ==
    /\ workers[s]["failed"] > 0
    /\ Len(afterQueue) < MaxAfter
    /\ workers' = [workers EXCEPT ![s]["failed"] = @ - 1]
    /\ afterQueue' = Append(afterQueue, <<"status_error", s>>)
    /\ UNCHANGED <<clicking, status, hotkey, last_hotkey_time, now,
                   listening_for_hotkey, hotkey_target, keyboard_listener,
                   hotkey_capture_listener, listener, ui>>
    /\ UNCHANGED <<cfgVars, updVars, restVars>>

\* The except branch: clear the flag under the lock, schedule the "Error"
\* status on the main thread, break.
WorkerFail(s) ==
    /\ workers[s]["failed"] > 0
    /\ Len(afterQueue) < MaxAfter
    /\ workers' = [workers EXCEPT ![s]["failed"] = @ - 1]
    /\ clicking' = [clicking EXCEPT ![s] = FALSE]
    /\ afterQueue' = Append(afterQueue, <<"status_error", s>>)
    /\ UNCHANGED <<status, hotkey, last_hotkey_time, now,
                   listening_for_hotkey, hotkey_target, keyboard_listener,
                   hotkey_capture_listener, listener, ui>>
    /\ UNCHANGED <<cfgVars, updVars, restVars>>

\* ------------------------------------------------------ listener objects
\* keyboard.Listener(...): a new object with a thread of its own.  The model
\* has ListenerIds of them; one whose thread has ended and that no attribute
\* refers to any more (`replaced` is the reference being overwritten) is free.
FreeIds(replaced) ==
    {j \in ListenerIds :
        /\ ~listener[j].running
        /\ listener[j].pc = "idle"
        /\ j \notin ({keyboard_listener, hotkey_capture_listener} \ {replaced})}

NewId(replaced) == CHOOSE j \in FreeIds(replaced) : \A k \in FreeIds(replaced) : j <= k

\* Listener.stop() on the object `ref` (None: nothing to stop): no further
\* event is delivered; a callback in flight is not waited for.
Stopped(ls, ref) ==
    [j \in ListenerIds |-> IF j = ref THEN [ls[j] EXCEPT !.running = FALSE] ELSE ls[j]]

\* keyboard.Listener(on_press=callback).start() as object j.
Started(ls, j, kind) ==
    [ls EXCEPT ![j] = [IdleThread EXCEPT !.kind = kind, !.running = TRUE]]

\* ------------------------------------------------------- the main thread
\* Mutant: start_hotkey_capture without the test of the capturing flag.
BeginCaptureUnguarded(target) ==
    /\ ui.pc = "idle"
    /\ FreeIds(hotkey_capture_listener) # {}
    /\ listening_for_hotkey' = TRUE
    /\ hotkey_target' = target
    /\ ui' = [pc |-> "stop_dispatch", target |-> target, early |-> listening_for_hotkey]
    /\ UNCHANGED <<clicking, status, workers, hotkey, last_hotkey_time, now,
                   keyboard_listener, hotkey_capture_listener, listener, afterQueue>>
    /\ UNCHANGED <<cfgVars, updVars, restVars>>

\* start_hotkey_capture, first critical section: return if already capturing,
\* else set the flag and record the target.  (A rebinding is begun only when
\* the model has a listener object left for it.)
BeginCapture(target) ==
    /\ ui.pc = "idle"
    /\ IF listening_for_hotkey
       THEN /\ ui' = [ui EXCEPT !.early = TRUE]
            /\ UNCHANGED <<listening_for_hotkey, hotkey_target>>
       ELSE /\ FreeIds(hotkey_capture_listener) # {}
            /\ listening_for_hotkey' = TRUE
            /\ hotkey_target' = target
            /\ ui' = [pc |-> "stop_dispatch", target |-> target, early |-> FALSE]
    /\ UNCHANGED <<clicking, status, workers, hotkey, last_hotkey_time, now,
                   keyboard_listener, hotkey_capture_listener, listener, afterQueue>>
    /\ UNCHANGED <<cfgVars, updVars, restVars>>

\* start_hotkey_capture: the "Press a key..." label, stop_keyboard_listener().
CaptureStopDispatch ==
    /\ ui.pc = "stop_dispatch"
    /\ listener' = Stopped(listener, keyboard_listener)
    /\ ui' = [ui EXCEPT !.pc = "start_capture"]
    /\ UNCHANGED <<clicking, status, workers, hotkey, last_hotkey_time, now,
                   listening_for_hotkey, hotkey_target, keyboard_listener,
                   hotkey_capture_listener, afterQueue>>
    /\ UNCHANGED <<cfgVars, updVars, restVars>>

\* start_hotkey_capture, second critical section: create and start the
\* capture listener.
CaptureStartListener ==
    /\ ui.pc = "start_capture"
    /\ FreeIds(hotkey_capture_listener) # {}
    /\ LET j == NewId(hotkey_capture_listener) IN
       /\ hotkey_capture_listener' = j
       /\ listener' = Started(listener, j, "capture")
    /\ ui' = IdleUi
    /\ UNCHANGED <<clicking, status, workers, hotkey, last_hotkey_time, now,
                   listening_for_hotkey, hotkey_target, keyboard_listener,
                   afterQueue>>
    /\ UNCHANGED <<cfgVars, updVars, restVars>>

\* start_keyboard_listener: stop the existing dispatch listener if present,
\* then create and start a new one.
StartKeyboardListener ==
    /\ FreeIds(keyboard_listener) # {}
    /\ LET j == NewId(keyboard_listener) IN
       /\ keyboard_listener' = j
       /\ listener' = Started(Stopped(listener, keyboard_listener), j, "dispatch")

\* The Tk event loop runs the oldest callback scheduled with after(0, ...).
RunAfter ==
    /\ ui.pc = "idle"
    /\ afterQueue # << >>
    /\ afterQueue' = Tail(afterQueue)
    /\ LET cb == Head(afterQueue) IN
       IF cb[1] = "status_error"
       THEN /\ status' = [status EXCEPT ![cb[2]] = "Error"]
            /\ UNCHANGED <<keyboard_listener, listener>>
       ELSE /\ StartKeyboardListener
            /\ UNCHANGED status
    /\ UNCHANGED <<clicking, workers, hotkey, last_hotkey_time, now,
                   listening_for_hotkey, hotkey_target,
                   hotkey_capture_listener, ui>>
    /\ UNCHANGED <<cfgVars, updVars, restVars>>

\* The Tk event loop runs start_keyboard_listener and the call raises: in
\* keyboard.Listener(...), before the attribute is assigned, or in start(),
\* after it.  The old listener has been stopped.  Tk reports the exception of
\* a callback on stderr and goes on with the event loop; no widget changes.
RunAfterRaises(raised) ==
    /\ ui.pc = "idle"
    /\ afterQueue # << >>
    /\ Head(afterQueue)[1] = "start_keyboard_listener"
    /\ afterQueue' = Tail(afterQueue)
    /\ IF raised = "Listener"
       THEN /\ listener' = Stopped(listener, keyboard_listener)
            /\ UNCHANGED keyboard_listener
       ELSE /\ FreeIds(keyboard_listener) # {}
            /\ LET j == NewId(keyboard_listener) IN
               /\ keyboard_listener' = j
               /\ listener' = [Stopped(listener, keyboard_listener) EXCEPT
                                  ![j] = [IdleThread EXCEPT !.kind = "dispatch"]]
    /\ UNCHANGED <<clicking, status, workers, hotkey, last_hotkey_time, now,
                   listening_for_hotkey, hotkey_target,
                   hotkey_capture_listener, ui>>
    /\ UNCHANGED <<cfgVars, updVars, restVars>>

\* ------------------------------------------------------ the capture listener
\* capture_hotkey, its critical section, on the thread of listener i: return
\* if not capturing, else stop the capture listener, clear the flag and read
\* the target.
capture_hotkey(i, key) ==
    /\ IF ~listening_for_hotkey
       THEN UNCHANGED <<listening_for_hotkey, hotkey_capture_listener, listener>>
       ELSE /\ listening_for_hotkey' = FALSE
            /\ hotkey_capture_listener' = 0
            /\ listener' = [Stopped(listener, hotkey_capture_listener) EXCEPT
                               ![i].pc = "assign", ![i].key = key,
                               ![i].slot = hotkey_target]
    /\ UNCHANGED <<clicking, status, workers, hotkey, last_hotkey_time, now,
                   hotkey_target, keyboard_listener, ui, afterQueue>>
    /\ UNCHANGED <<cfgVars, updVars, restVars>>

\* The capture listener delivers a key press.
CaptureKey(i, key) ==
    /\ listener[i].kind = "capture"
    /\ listener[i].running
    /\ listener[i].pc = "idle"
    /\ capture_hotkey(i, key)

\* A capture listener that was stopped delivers a key press its thread had
\* read before: Listener.stop() is a request, and the code never waits for
\* the thread of a listener it has stopped.
CaptureLate(i, key) ==
    /\ listener[i].kind = "capture"
    /\ ~listener[i].running
    /\ listener[i].pc = "idle"
    /\ capture_hotkey(i, key)

\* capture_hotkey: bind the key to the target that was read.
CaptureAssign(i) ==
    /\ listener[i].pc = "assign"
    /\ hotkey' = [hotkey EXCEPT ![listener[i].slot] = listener[i].key]
    /\ listener' = [listener EXCEPT ![i].pc = "save", ![i].key = "none",
                                    ![i].slot = "none"]
    /\ UNCHANGED <<clicking, status, workers, last_hotkey_time, now,
                   listening_for_hotkey, hotkey_target, keyboard_listener,
                   hotkey_capture_listener, ui, afterQueue>>
    /\ UNCHANGED <<cfgVars, updVars, restVars>>

\* Mutant: save_config without its try/except: a failed write ends the callback.
CaptureSaveRaises(i, r) ==
    /\ listener[i].pc = "save"
    /\ listener' = [listener EXCEPT ![i].pc = IF r = "ok" THEN "restart" ELSE "idle"]
    /\ config' = save_config(r, interval, hotkey)
    /\ UNCHANGED <<clicking, status, workers, hotkey, last_hotkey_time, now,
                   listening_for_hotkey, hotkey_target, keyboard_listener,
                   hotkey_capture_listener, ui, afterQueue>>
    /\ UNCHANGED <<interval, interval_var, dialog, updVars, restVars>>

\* capture_hotkey: save_config(), which catches whatever the write raises.
CaptureSave(i, r) ==
    /\ listener[i].pc = "save"
    /\ listener' = [listener EXCEPT ![i].pc = "restart"]
    /\ config' = save_config(r, interval, hotkey)
    /\ UNCHANGED <<clicking, status, workers, hotkey, last_hotkey_time, now,
                   listening_for_hotkey, hotkey_target, keyboard_listener,
                   hotkey_capture_listener, ui, afterQueue>>
    /\ UNCHANGED <<interval, interval_var, dialog, updVars, restVars>>

\* capture_hotkey: window.after(0, self.start_keyboard_listener); return.
CaptureRestart(i) ==
    /\ listener[i].pc = "restart"
    /\ Len(afterQueue) < MaxAfter
    /\ afterQueue' = Append(afterQueue, <<"start_keyboard_listener", "none">>)
    /\ listener' = [listener EXCEPT ![i].pc = "idle"]
    /\ UNCHANGED <<clicking, status, workers, hotkey, last_hotkey_time, now,
                   listening_for_hotkey, hotkey_target, keyboard_listener,
                   hotkey_capture_listener, ui>>
    /\ UNCHANGED <<cfgVars, updVars, restVars>>

\* ---------------------------------------------------------- apply-interval
\* Mutant: _apply_interval with the range test of _validate_interval, which
\* NaN does not pass.
RejectedOnlyInRange(x) ==
    \/ x.kind = "ValueError"
    \/ ~(Le(Num(MIN_INTERVAL), x) /\ Le(x, Num(MAX_INTERVAL)))

\* _apply_interval raises ValueError: float() does, or one of the two
\* comparisons `interval_value < MIN_INTERVAL`, `interval_value > MAX_INTERVAL`
\* is true.
Rejected(x) ==
    \/ x.kind = "ValueError"
    \/ Lt(x, Num(MIN_INTERVAL))
    \/ Lt(Num(MAX_INTERVAL), x)

\* The user types text into the interval entry of slot s and presses Apply:
\* apply_interval1 / apply_interval2 / apply_keypresser_interval, on the main
\* thread; r is what the write of save_config does.
ApplyInterval(s, text, r) ==
    /\ ui.pc = "idle"
    /\ interval_var' = [interval_var EXCEPT ![s] = text]
    /\ IF Rejected(Float(text))
       THEN /\ dialog' = [title |-> "Error", name |-> s]
            /\ UNCHANGED <<interval, config>>
       ELSE /\ interval' = [interval EXCEPT ![s] = Float(text)]
            /\ config' = save_config(r, interval', hotkey)
            /\ dialog' = [title |-> "Success", name |-> s]
    /\ UNCHANGED <<clicking, status, workers, hotkey, last_hotkey_time, now,
                   listening_for_hotkey, hotkey_target, keyboard_listener,
                   hotkey_capture_listener, listener, ui, afterQueue>>
    /\ UNCHANGED <<updVars, restVars>>

\* ------------------------------------------------------ the update pipeline
\* Mutant: the outer try without its `except Exception` clause.
except_outer_narrow(exc) ==
    IF exc \in {"URLError", "HTTPError"} THEN "Network error" ELSE "escaped"

\* The except clauses of the outer try of _apply_update: URLError (HTTPError
\* is one), then Exception.  The result is the message box scheduled.
except_outer(exc) ==
    IF exc \in {"URLError", "HTTPError"} THEN "Network error" ELSE "Unexpected error"

\* Run r leaves the try block with the message box `outcome` scheduled (or
\* with an exception no clause caught): the finally clause is next.
Leave(r, outcome) == [upd[r] EXCEPT !.pc = "finally", !.outcome = outcome]

\* update_now: a thread is started on _apply_update.
UpdateNow(r) ==
    /\ upd[r].pc \in {"idle", "done"}
    /\ upd' = [upd EXCEPT ![r] = [IdleRun EXCEPT !.pc = "checksum"]]
    /\ UNCHANGED files
    /\ UNCHANGED <<engineVars, cfgVars, restVars>>

\* Download and validate the checksum file: its first token, lowercased,
\* must have 64 characters, all of them hex digits.
FetchChecksum(r, resp) ==
    /\ upd[r].pc = "checksum"
    /\ upd' = [upd EXCEPT ![r] =
          CASE resp.status = "404" -> Leave(r, "Update Aborted")
            [] resp.status \in {"HTTPError", "URLError"} -> Leave(r, except_outer(resp.status))
            [] resp.token.len = 0 ->
                 [Leave(r, except_outer("IndexError")) EXCEPT !.checksum_content = resp.token]
            [] Lower(resp.token).len # 64 \/ ~Lower(resp.token).hex ->
                 [Leave(r, except_outer("ValueError")) EXCEPT !.checksum_content = resp.token]
            [] OTHER -> [upd[r] EXCEPT !.pc = "download",
                                       !.checksum_content = resp.token,
                                       !.expected_checksum = Lower(resp.token).digest]]
    /\ UNCHANGED files
    /\ UNCHANGED <<engineVars, cfgVars, restVars>>

\* Mutant: the download without the comparison of the checksums.
DownloadUnchecked(r, resp) ==
    /\ upd[r].pc = "download"
    /\ upd' = [upd EXCEPT ![r] =
          CASE resp = "URLError" -> Leave(r, except_outer("URLError"))
            [] OTHER -> [upd[r] EXCEPT !.pc = "write", !.content = resp]]
    /\ UNCHANGED files
    /\ UNCHANGED <<engineVars, cfgVars, restVars>>

\* Download the update file to memory and compare its SHA-256 with the
\* expected checksum.
Download(r, resp) ==
    /\ upd[r].pc = "download"
    /\ upd' = [upd EXCEPT ![r] =
          CASE resp = "URLError" -> Leave(r, except_outer("URLError"))
            [] Sha256(resp) # upd[r].expected_checksum ->
                 [Leave(r, "Security Error") EXCEPT !.content = resp]
            [] OTHER -> [upd[r] EXCEPT !.pc = "write", !.content = resp,
                                       !.verified = TRUE]]
    /\ UNCHANGED files
    /\ UNCHANGED <<engineVars, cfgVars, restVars>>

\* tmp_path is set; the content is written to the temp file and synced.  The
\* open fails (OSError), the write fails after the file was truncated (with
\* OSError, or with an exception of another class), the write succeeds, or
\* it succeeds with bytes that are not the content.
WriteTemp(r, res) ==
    /\ upd[r].pc = "write"
    /\ files' = [files EXCEPT !.tmp =
          CASE res = "open_failed" -> @
            [] res = "ok" -> upd[r].content
            [] OTHER -> "partial"]
    /\ upd' = [upd EXCEPT ![r] =
          [(CASE res \in {"open_failed", "write_failed"} ->
                    Leave(r, "Failed to write update file")
              [] res = "raised" -> Leave(r, except_outer("Exception"))
              [] OTHER -> [upd[r] EXCEPT !.pc = "verify"]) EXCEPT !.tmp_path = TRUE]]
    /\ UNCHANGED <<engineVars, cfgVars, restVars>>

\* Mutant: the backup is reached without the re-read of the temp file.
VerifyTempSkipped(r, res) ==
    /\ upd[r].pc = "verify"
    /\ upd' = [upd EXCEPT ![r].pc = "backup"]
    /\ UNCHANGED files
    /\ UNCHANGED <<engineVars, cfgVars, restVars>>

\* Re-read the temp file and compare its SHA-256 with the expected checksum;
\* whatever is raised (the file is gone, the read fails) is a failure too.
VerifyTemp(r, res) ==
    /\ upd[r].pc = "verify"
    /\ upd' = [upd EXCEPT ![r] =
          IF \/ res = "read_failed"
             \/ files.tmp = "absent"
             \/ Sha256(files.tmp) # upd[r].expected_checksum
          THEN Leave(r, "Failed to verify written file")
          ELSE [upd[r] EXCEPT !.pc = "backup", !.written_verified = TRUE]]
    /\ UNCHANGED files
    /\ UNCHANGED <<engineVars, cfgVars, restVars>>

\* Mutant: a failed backup copy is ignored.
BackupIgnored(r, res) ==
    /\ upd[r].pc = "backup"
    /\ files' = [files EXCEPT !.backup =
          CASE res = "ok" -> files.script
            [] res = "failed" -> @
            [] OTHER -> "partial"]
    /\ upd' = [upd EXCEPT ![r].pc = "replace", ![r].backed_up = (res = "ok")]
    /\ UNCHANGED <<engineVars, cfgVars, restVars>>

\* shutil.copy2(current_script, backup_path): it succeeds, or it raises
\* having written nothing or a part of the backup.
Backup(r, res) ==
    /\ upd[r].pc = "backup"
    /\ files' = [files EXCEPT !.backup =
          CASE res = "ok" -> files.script
            [] res = "failed" -> @
            [] OTHER -> "partial"]
    /\ upd' = [upd EXCEPT ![r] =
          IF res = "ok"
          THEN [upd[r] EXCEPT !.pc = "replace", !.backed_up = TRUE]
          ELSE Leave(r, "Failed to create backup")]
    /\ UNCHANGED <<engineVars, cfgVars, restVars>>

\* os.replace(tmp_path, current_script), then tmp_path = None and the
\* "Update Complete" message; os.replace raises if the temp file is gone.
Replace(r, res) ==
    /\ upd[r].pc = "replace"
    /\ IF res = "ok" /\ files.tmp # "absent"
       THEN /\ files' = [files EXCEPT !.script = files.tmp, !.tmp = "absent"]
            /\ upd' = [upd EXCEPT ![r] =
                  [Leave(r, "Update Complete") EXCEPT !.tmp_path = FALSE]]
       ELSE /\ upd' = [upd EXCEPT ![r] = Leave(r, "Failed to apply update")]
            /\ UNCHANGED files
    /\ UNCHANGED <<engineVars, cfgVars, restVars>>

\* Mutant: the finally clause without the unlink.
FinallyNoCleanup(r, res) ==
    /\ upd[r].pc = "finally"
    /\ upd' = [upd EXCEPT ![r].pc = "done"]
    /\ UNCHANGED files
    /\ UNCHANGED <<engineVars, cfgVars, restVars>>

\* The finally clause: unlink the temp file if tmp_path is set; an OSError
\* (the file is not there, the unlink fails) is printed as a warning.
Finally(r, res) ==
    /\ upd[r].pc = "finally"
    /\ IF upd[r].tmp_path /\ files.tmp # "absent" /\ res = "ok"
       THEN files' = [files EXCEPT !.tmp = "absent"]
       ELSE UNCHANGED files
    /\ upd' = [upd EXCEPT ![r].pc = "done",
                          ![r].warned = upd[r].tmp_path /\ (files.tmp = "absent" \/ res # "ok")]
    /\ UNCHANGED <<engineVars, cfgVars, restVars>>

\* --------------------------------------------------------- the update check
\* _safe_after(0, callback): the callback is scheduled if the window exists.
_safe_after(callback) == IF window.exists THEN callback ELSE "none"

\* The thread of a check is started: by the timer of __init__ with
\* silent = True, by _check_for_updates_clicked with silent = False.
CheckForUpdates(r, silent) ==
    /\ chk[r].pc = "idle"
    /\ chk' = [chk EXCEPT ![r] = [IdleCheck EXCEPT !.pc = "request", !.silent = silent]]
    /\ UNCHANGED <<engineVars, cfgVars, updVars, ver, keyio, loaded, window, loop, lockVars>>

\* The try block up to the comparison: urlopen, json.loads, tag_name without
\* its leading 'v', ValueError if nothing is left.
CheckFetch(r, resp) ==
    /\ chk[r].pc = "request"
    /\ chk' = [chk EXCEPT ![r] =
          IF fetch_exception(resp) # "none"
          THEN [@ EXCEPT !.pc = "except", !.exc = fetch_exception(resp)]
          ELSE [@ EXCEPT !.pc = "compare",
                         !.latest_version = S(lstrip(resp.tag_name.text, "v"))]]
    /\ UNCHANGED <<engineVars, cfgVars, updVars, ver, keyio, loaded, window, loop, lockVars>>

\* The rest of the try block: the update dialog if the release is newer,
\* else the "Up to Date" box unless the check is silent.
CheckCompare(r) ==
    /\ chk[r].pc = "compare"
    /\ chk' = [chk EXCEPT ![r].pc = "done",
                          ![r].after =
                              IF _version_newer(chk[r].latest_version, V1_4_0)
                              THEN _safe_after("Update Available")
                              ELSE IF ~chk[r].silent THEN _safe_after("Up to Date")
                              ELSE "none"]
    /\ UNCHANGED <<engineVars, cfgVars, updVars, ver, keyio, loaded, window, loop, lockVars>>

\* Mutant: the except clauses without the test of `silent`.
except_check_always(exc, silent) == _safe_after("Update Error")

\* The clauses `except urllib.error.URLError` and `except Exception`: both
\* show the error box unless the check is silent.
except_check(exc, silent) ==
    IF exc = "URLError"
    THEN IF ~silent THEN _safe_after("Update Error") ELSE "none"
    ELSE IF ~silent THEN _safe_after("Update Error") ELSE "none"

CheckExcept(r) ==
    /\ chk[r].pc = "except"
    /\ chk' = [chk EXCEPT ![r].pc = "done",
                          ![r].after = except_check(chk[r].exc, chk[r].silent)]
    /\ UNCHANGED <<engineVars, cfgVars, updVars, ver, keyio, loaded, window, loop, lockVars>>

\* The Tk event loop runs the callback of a check: the box or dialog appears.
CheckShow(r) ==
    /\ ui.pc = "idle"
    /\ chk[r].after # "none"
    /\ chk[r].shown = "none"
    /\ chk' = [chk EXCEPT ![r].shown = chk[r].after]
    /\ UNCHANGED <<engineVars, cfgVars, updVars, ver, keyio, loaded, window, loop, lockVars>>

\* The steps of the check threads R.
Check(R) ==
    \/ \E r \in R, silent \in BOOLEAN : CheckForUpdates(r, silent)
    \/ \E r \in R, resp \in FeedResponses : CheckFetch(r, resp)
    \/ \E r \in R : CheckCompare(r)
    \/ \E r \in R : CheckExcept(r)
    \/ \E r \in R : CheckShow(r)

\* ------------------------------------------------------ the pure functions
\* _version_newer is called on the ordered pairs of the three arguments.
VersionNewer ==
    /\ ~ver.called
    /\ ver' = [ver EXCEPT !.called = TRUE,
                          !.newer = [p \in Pairs |-> _version_newer(ver[p[1]], ver[p[2]])]]
    /\ UNCHANGED <<engineVars, cfgVars, updVars, chk, keyio, loaded, window, loop, lockVars>>

\* save_config calls _serialize_key on a hotkey.
SerializeKey ==
    /\ keyio.pc = "key"
    /\ keyio' = [keyio EXCEPT !.pc = "serialized", !.data = _serialize_key(keyio.key)]
    /\ UNCHANGED <<engineVars, cfgVars, updVars, chk, ver, loaded, window, loop, lockVars>>

\* load_config calls _deserialize_key on a hotkey entry: one that
\* _serialize_key wrote, or one that it is given.
DeserializeKey ==
    /\ keyio.pc \in {"serialized", "data"}
    /\ keyio' = [keyio EXCEPT !.pc = IF keyio.pc = "data" THEN "deserialized"
                                     ELSE "round_trip",
                              !.out = _deserialize_key(keyio.data)]
    /\ UNCHANGED <<engineVars, cfgVars, updVars, chk, ver, loaded, window, loop, lockVars>>

\* __init__ calls load_config.
LoadConfig ==
    /\ loaded.pc = "init"
    /\ loaded' = [loaded EXCEPT
          !.pc = "loaded",
          !.attrs = load_attrs(loaded.program, loaded.doc, loaded.attrs),
          !.printed = except_load(load_exception(loaded.program, loaded.doc, loaded.attrs))]
    /\ UNCHANGED <<engineVars, cfgVars, updVars, chk, ver, keyio, window, loop, lockVars>>

\* --------------------------------------------------------------- on_closing
\* The window is closed: on_closing starts on the main thread with
\* stop_clicker1().
OnClosing ==
    /\ ui.pc = "idle"
    /\ StopSlot("clicker1")
    /\ ui' = [ui EXCEPT !.pc = "close_clicker2"]
    /\ UNCHANGED <<hotkey, last_hotkey_time, now, listening_for_hotkey, hotkey_target,
                   keyboard_listener, hotkey_capture_listener, listener, afterQueue>>
    /\ UNCHANGED <<cfgVars, updVars, restVars>>

\* on_closing: stop_clicker2(), then stop_keypresser().
CloseStopSlot ==
    /\ ui.pc \in {"close_clicker2", "close_keypresser"}
    /\ StopSlot(IF ui.pc = "close_clicker2" THEN "clicker2" ELSE "keypresser")
    /\ ui' = [ui EXCEPT !.pc = IF ui.pc = "close_clicker2" THEN "close_keypresser"
                               ELSE "close_listeners"]
    /\ UNCHANGED <<hotkey, last_hotkey_time, now, listening_for_hotkey, hotkey_target,
                   keyboard_listener, hotkey_capture_listener, listener, afterQueue>>
    /\ UNCHANGED <<cfgVars, updVars, restVars>>

\* on_closing: stop_keyboard_listener(), then stop the capture listener if
\* there is one.
CloseStopListeners ==
    /\ ui.pc = "close_listeners"
    /\ listener' = Stopped(Stopped(listener, keyboard_listener), hotkey_capture_listener)
    /\ ui' = [ui EXCEPT !.pc = "join_clicker1"]
    /\ UNCHANGED <<clicking, status, workers, hotkey, last_hotkey_time, now,
                   listening_for_hotkey, hotkey_target, keyboard_listener,
                   hotkey_capture_listener, afterQueue>>
    /\ UNCHANGED <<cfgVars, updVars, restVars>>

\* on_closing: thread.join(timeout=1.0) for one slot, then the warning if
\* the thread is alive.  The join returns at once when the slot has no live
\* worker; with live workers it either returns because the thread it waits
\* for has ended, or the timeout expires and the warning is printed.
CloseJoin ==
    /\ ui.pc \in {"join_clicker1", "join_clicker2", "join_keypresser"}
    /\ LET s == CASE ui.pc = "join_clicker1" -> "clicker1"
                  [] ui.pc = "join_clicker2" -> "clicker2"
                  [] OTHER -> "keypresser"
       IN  \/ UNCHANGED window
           \/ /\ Alive(s) > 0
              /\ window' = [window EXCEPT !.warned = @ \cup {s}]
    /\ ui' = [ui EXCEPT !.pc = CASE ui.pc = "join_clicker1" -> "join_clicker2"
                                 [] ui.pc = "join_clicker2" -> "join_keypresser"
                                 [] OTHER -> "close_destroy"]
    /\ UNCHANGED <<clicking, status, workers, hotkey, last_hotkey_time, now,
                   listening_for_hotkey, hotkey_target, keyboard_listener,
                   hotkey_capture_listener, listener, afterQueue>>
    /\ UNCHANGED <<cfgVars, updVars, chk, ver, keyio, loaded, loop, lockVars>>

\* on_closing: close the virtual devices (an exception is caught and
\* printed), window.destroy(); the main loop ends.
CloseDestroy ==
    /\ ui.pc = "close_destroy"
    /\ window' = [window EXCEPT !.exists = FALSE]
    /\ ui' = [ui EXCEPT !.pc = "closed"]
    /\ UNCHANGED <<clicking, status, workers, hotkey, last_hotkey_time, now,
                   listening_for_hotkey, hotkey_target, keyboard_listener,
                   hotkey_capture_listener, listener, afterQueue>>
    /\ UNCHANGED <<cfgVars, updVars, chk, ver, keyio, loaded, loop, lockVars>>

\* The steps of on_closing.
Close == OnClosing \/ CloseStopSlot \/ CloseStopListeners \/ CloseJoin \/ CloseDestroy

\* ------------------------------------------------------ steps on the locks
\* Thread t, outside any call, makes one of its calls.
Call(t, path) ==
    /\ thread[t] = << >>
    /\ thread' = [thread EXCEPT ![t] = path]
    /\ UNCHANGED lock
    /\ UNCHANGED <<engineVars, cfgVars, updVars, chk, ver, keyio, loaded, window, loop>>

\* threading.Lock.acquire(): blocks while the lock is held, by any thread.
Acquire(t) ==
    /\ thread[t] # << >>
    /\ Head(thread[t])[1] = "acquire"
    /\ lock[Head(thread[t])[2]] = "free"
    /\ lock' = [lock EXCEPT ![Head(thread[t])[2]] = t]
    /\ thread' = [thread EXCEPT ![t] = Tail(@)]
    /\ UNCHANGED <<engineVars, cfgVars, updVars, chk, ver, keyio, loaded, window, loop>>

\* threading.Lock.release(), at the end of a `with` block.
Release(t) ==
    /\ thread[t] # << >>
    /\ Head(thread[t])[1] = "release"
    /\ lock' = [lock EXCEPT ![Head(thread[t])[2]] = "free"]
    /\ thread' = [thread EXCEPT ![t] = Tail(@)]
    /\ UNCHANGED <<engineVars, cfgVars, updVars, chk, ver, keyio, loaded, window, loop>>

\* The next operation of the call: the actuator call, the sleep, or a step
\* of save_config on the file.
Do(t) ==
    /\ thread[t] # << >>
    /\ Head(thread[t])[1] = "do"
    /\ thread' = [thread EXCEPT ![t] = Tail(@)]
    /\ UNCHANGED lock
    /\ UNCHANGED <<engineVars, cfgVars, updVars, chk, ver, keyio, loaded, window, loop>>

\* The steps of the update threads R.
Update(R) ==
     \/ \E r \in R : UpdateNow(r)
     \/ \E r \in R, resp \in ChecksumResponses : FetchChecksum(r, resp)
     \/ \E r \in R, resp \in Artifacts \cup {"URLError"} : Download(r, resp)
     \/ \E r \in R, res \in {"ok", "open_failed", "write_failed", "raised", "faulty"} :
            WriteTemp(r, res)
     \/ \E r \in R, res \in {"ok", "read_failed"} : VerifyTemp(r, res)
     \/ \E r \in R, res \in {"ok", "failed", "failed_partial"} : Backup(r, res)
     \/ \E r \in R, res \in {"ok", "failed"} : Replace(r, res)
     \/ \E r \in R, res \in {"ok", "failed"} : Finally(r, res)

\* ------------------------------------------------------- specifications
\* The keys pressed and the rebinding requests made are the inputs; each
\* specification draws them from the sets it names.
Dispatch(K) ==
    \/ \E i \in ListenerIds, key \in K : KeyEvent(i, key)
    \/ \E i \in ListenerIds : OnHotkeyPress(i)
    \/ \E i \in ListenerIds : ToggleRead(i)
    \/ \E i \in ListenerIds : ToggleStopSelf(i)
    \/ \E i \in ListenerIds : ToggleStopSibling(i)
    \/ \E i \in ListenerIds : ToggleStartSelf(i)
    \/ \E i \in ListenerIds : EmergencyStop(i)

Work ==
    \/ \E s \in Slots : WorkerCheck(s)
    \/ \E s \in Slots : WorkerAct(s)
    \/ \E s \in Slots : WorkerRaise(s)
    \/ \E s \in Slots : WorkerFail(s)

Capture(T, K, R) ==
    \/ \E t \in T : BeginCapture(t)
    \/ CaptureStopDispatch
    \/ CaptureStartListener
    \/ \E i \in ListenerIds, key \in K : CaptureKey(i, key)
    \/ \E i \in ListenerIds : CaptureAssign(i)
    \/ \E i \in ListenerIds, r \in R : CaptureSave(i, r)
    \/ \E i \in ListenerIds : CaptureRestart(i)

\* The engine under its one dispatch listener: hotkeys, workers, actuator
\* failures; the clock moves a cooldown at a time.
Next == Tick(hotkey_cooldown) \/ Dispatch(Keys) \/ Work \/ RunAfter

Spec == Init /\ [][Next]_vars

\* Hotkey dispatch alone, the clock moving 50 ms at a time.
NextRate == Tick(TickMs) \/ Dispatch(Keys)

SpecRate == Init /\ [][NextRate]_vars

\* Hotkey dispatch and the rebinding of clicker 1 to F8, listeners swapped.
NextSwap == Dispatch(Keys) \/ RunAfter \/ Capture({"clicker1"}, {"f8"}, {"ok"})

SpecSwap == Init /\ [][NextSwap]_vars

\* The rebinding workflow alone: the two clickers rebound to F8, every
\* outcome of the write of the configuration.
NextRebind == RunAfter \/ Capture(Clickers, {"f8"}, SaveResults)

SpecRebind == Init /\ [][NextRebind]_vars

\* The same, scheduled fairly: the Tk event loop runs the callbacks that are
\* due, and a thread that is inside a handler goes on to the handler's end.
LiveRebind ==
    /\ SpecRebind
    /\ WF_vars(RunAfter)
    /\ WF_vars(CaptureStopDispatch)
    /\ WF_vars(CaptureStartListener)
    /\ \A i \in ListenerIds :
          /\ WF_vars(CaptureAssign(i))
          /\ WF_vars(\E r \in SaveResults : CaptureSave(i, r))
          /\ WF_vars(CaptureRestart(i))

\* Apply-interval requests, for a clicker and for the key presser, after the
\* load of an arbitrary configuration file.
NextCfg == \E s \in {"clicker1", "keypresser"}, text \in Texts, r \in SaveResults : ApplyInterval(s, text, r)

SpecCfg == InitCfg /\ [][NextCfg]_vars

\* The update threads.
NextUpdate == Update(Runs)

SpecUpdate == Init /\ [][NextUpdate]_vars

\* The update check: two check threads and the main thread that shows
\* their boxes.
NextCheck == Check(Checks)

SpecCheck == Init /\ [][NextCheck]_vars

\* __init__ with nothing but the engine's defaults, for the specifications
\* below that draw the arguments of one function.
InitBase ==
    /\ InitConfig(NoConfigFile)
    /\ InitUpdate
    /\ InitEngine
    /\ InitCheck
    /\ InitWindow
    /\ InitLoop
    /\ InitLock

\* _version_newer on every three arguments of Versions.
InitVersions ==
    /\ InitBase /\ InitKey /\ InitLoad
    /\ \E a \in Versions, b \in Versions, c \in Versions : ver = NotCompared(a, b, c)

NextVersion == VersionNewer

SpecVersion == InitVersions /\ [][NextVersion]_vars

\* _serialize_key then _deserialize_key on every key object, and
\* _deserialize_key on every serialized form of KeyDatas.
InitKeys ==
    /\ InitBase /\ InitVersion /\ InitLoad
    /\ \/ \E k \in KeyObjects : keyio = KeyCall(k, NoKey, "key")
       \/ \E d \in KeyDatas : keyio = KeyCall(OtherObject, d, "data")

NextKey == SerializeKey \/ DeserializeKey

SpecKey == InitKeys /\ [][NextKey]_vars

\* load_config of both programs on every document of Documents.
InitLoads ==
    /\ InitBase /\ InitVersion /\ InitKey
    /\ \E p \in Programs, doc \in Documents : loaded = NotLoaded(p, doc)

NextLoad == LoadConfig

SpecLoad == InitLoads /\ [][NextLoad]_vars

\* Hotkey dispatch under every binding of the targets to F6 and F9.
NextPriority == Tick(hotkey_cooldown) \/ Dispatch(BoundKeys \cup {"f7"})

SpecPriority == InitBound /\ [][NextPriority]_vars

\* Clicker 1 and the key presser toggled by their hotkeys, the emergency
\* stop, the workers and the shutdown.
NextPresser ==
    \/ Tick(hotkey_cooldown)
    \/ Dispatch({"f6", "f8", "f9"})
    \/ Work
    \/ RunAfter
    \/ Close

SpecPresser == Init /\ [][NextPresser]_vars

\* The rebinding workflow when the restart of the dispatch listener may fail.
NextListen ==
    \/ RunAfter
    \/ \E raised \in {"Listener", "start"} : RunAfterRaises(raised)
    \/ Capture(Clickers, {"f8"}, {"ok"})

SpecListen == Init /\ [][NextListen]_vars

\* The calls of the main thread, of the two listener threads and of the
\* worker of clicker 1 (the workers of the other slots run the same loop,
\* each on the lock of its slot), a lock or file operation at a time.
LockThreads == {"ui", "dispatch", "capture", "clicker1"}

NextLock ==
    \/ \E t \in LockThreads : \E path \in Calls(t) : Call(t, path)
    \/ \E t \in LockThreads : Acquire(t)
    \/ \E t \in LockThreads : Release(t)
    \/ \E t \in LockThreads : Do(t)

SpecLock == Init /\ [][NextLock]_vars

\* The same, scheduled fairly: a thread that is not waiting for a lock goes
\* on, and a thread that waits for a lock which is released again and again
\* gets it.
LiveLock ==
    /\ SpecLock
    /\ \A t \in LockThreads :
          /\ SF_vars(Acquire(t))
          /\ WF_vars(Release(t) \/ Do(t))

\* Clicker 1 toggled and stopped by hotkeys while its interval is changed:
\* apply-interval requests with 0.5 s and 60 s.
NextInterval ==
    \/ Tick(hotkey_cooldown)
    \/ Dispatch({"f6", "f9"})
    \/ Work
    \/ RunAfter
    \/ \E text \in {"0.5", "60.0"} : ApplyInterval("clicker1", text, "ok")

SpecInterval == Init /\ [][NextInterval]_vars

\* The rebinding workflow with late key presses: a capture listener that
\* was stopped may still deliver F9.
NextLate ==
    \/ RunAfter
    \/ Capture(Clickers, {"f8"}, {"ok"})
    \/ \E i \in ListenerIds : CaptureLate(i, "f9")

SpecLate == Init /\ [][NextLate]_vars

\* The engine with the keys of the two clickers and of the emergency stop,
\* the clock advancing by one cooldown so that a key can be pressed again.
StopKeys == {"f6", "f7", "f9"}

NextStop == Tick(hotkey_cooldown) \/ Dispatch(StopKeys) \/ Work \/ RunAfter

SpecStop == Init /\ [][NextStop]_vars

\* The same, scheduled fairly: a worker thread goes on with its loop, an
\* actuator call returns or raises, the Tk event loop runs the callbacks.
LiveStop ==
    /\ SpecStop
    /\ WF_vars(RunAfter)
    /\ \A s \in Slots :
          /\ WF_vars(WorkerCheck(s))
          /\ WF_vars(WorkerAct(s) \/ WorkerRaise(s))
          /\ WF_vars(WorkerFail(s))

\* Shutdown: the window is closed while keys are dispatched and workers run.
NextClose ==
    Tick(hotkey_cooldown) \/ Dispatch(StopKeys) \/ Work \/ RunAfter \/ Close

SpecClose == Init /\ [][NextClose]_vars

\* ------------------------------------------------------------------ claims
Running(j) == listener[j].running
InCall(i, pcs) == listener[i].pc \in pcs

\* C1: at most one of the two clickers has its running flag true, in every
\* reachable state.
C1_MutexGroup == ~(clicking["clicker1"] /\ clicking["clicker2"])

\* C2: a slot whose running flag is true has exactly one live worker thread.
C2_OneWorkerWhileRunning == \A s \in Slots : clicking[s] => Alive(s) = 1

\* C3: a slot whose running flag is false has no worker executing the
\* actuator action.
C3_NoActionWhileStopped == \A s \in Slots : ~clicking[s] => workers[s]["action"] = 0

\* C3 (amended): a worker goes on to an actuator action only from a loop-top
\* check that found the running flag true; with the flag false no worker of
\* the slot begins an iteration, though one may be finishing the iteration
\* it began while the flag was true.
C3_ActionOnlyFromRunningCheck ==
    [][\A s \in Slots :
          workers'[s]["action"] > workers[s]["action"] => clicking[s]]_vars

\* A worker is inside the actuator action of a slot that a stop call has
\* already marked idle.
C3_InFlightAfterStop ==
    \E s \in Slots : ~clicking[s] /\ status[s] = "Idle" /\ workers[s]["action"] = 1

\* C4: toggle is atomic on its slot: a toggle that read "not running" starts
\* the slot, its start is never found already done by a concurrent toggle (in
\* any sequential order every toggle flips the flag).
C4_NoLostToggle ==
    \A i \in ListenerIds :
        InCall(i, {"stop_sibling", "start_self"}) => ~clicking[listener[i].slot]

\* C5: a toggle of clicker B invoked while its sibling A runs and B does not
\* returns with A stopped and B running.
C5_ToggleSiblingPost ==
    [][\A i \in ListenerIds :
          (/\ listener[i].pc = "start_self"
           /\ listener'[i].pc = "idle"
           /\ listener[i].sib)
          => /\ clicking'[listener[i].slot]
             /\ ~clicking'[Sibling(listener[i].slot)]]_vars

\* C6: when the dispatch of the emergency-stop key returns, every slot has
\* its running flag false.
C6_EmergencyStopPost ==
    [][\A i \in ListenerIds :
          (listener[i].pc = "estop3" /\ listener'[i].pc = "idle")
          => \A s \in Slots : ~clicking'[s]]_vars

\* The key press that listener thread i is handling comes less than the
\* cooldown after the last dispatched press of the same key.
TooSoon(i) ==
    /\ listener[i].key \in DOMAIN last_hotkey_time
    /\ now - last_hotkey_time[listener[i].key] < hotkey_cooldown

\* C7: a key press that reaches the rate limiter less than the cooldown after
\* the last dispatched press of the same key is dropped: the callback returns,
\* no running flag, status, worker or binding changes and the time recorded
\* for the key stays that of the earlier press.  Any other press is
\* dispatched and its time recorded, so of two presses 50 ms apart only the
\* first is dispatched.
C7_RateLimitDrops ==
    [][\A i \in ListenerIds :
          (listener[i].pc = "rate" /\ listener'[i].pc # "rate")
          => IF TooSoon(i)
             THEN /\ listener'[i].pc = "idle"
                  /\ UNCHANGED <<clicking, status, workers, hotkey, last_hotkey_time>>
             ELSE /\ listener[i].key \in DOMAIN last_hotkey_time'
                  /\ last_hotkey_time'[listener[i].key] = now
                  /\ Match(listener[i].key) # "none" => listener'[i].pc # "idle"]_vars

\* A press of F6 is at the rate limiter 50 ms after the press of F6 that
\* started clicker 1.
C7_SecondPressAfter50ms ==
    \E i \in ListenerIds :
        /\ listener[i].pc = "rate"
        /\ listener[i].key = "f6"
        /\ "f6" \in DOMAIN last_hotkey_time
        /\ now - last_hotkey_time["f6"] = 50
        /\ clicking["clicker1"]

\* The step of listener thread i is the return of a stop call on slot s.
StopCallStep(i, s) ==
    \/ /\ listener[i].pc = "stop_self" /\ listener'[i].pc = "idle"
       /\ s = listener[i].slot
    \/ /\ listener[i].pc = "stop_sibling" /\ listener'[i].pc = "start_self"
       /\ s = Sibling(listener[i].slot)
    \/ /\ listener[i].pc = "estop1" /\ listener'[i].pc = "estop2" /\ s = "clicker1"
    \/ /\ listener[i].pc = "estop2" /\ listener'[i].pc = "estop3" /\ s = "clicker2"
    \/ /\ listener[i].pc = "estop3" /\ listener'[i].pc = "idle" /\ s = "keypresser"

\* C8: stop is idempotent: every stop call leaves the running flag false; a
\* stop call on a slot that is already stopped changes neither the flag nor
\* the status (nor any worker), so two stops in a row make one status
\* transition, to Idle, at most.
C8_StopIdempotent ==
    [][\A i \in ListenerIds, s \in Slots :
          StopCallStep(i, s)
          => /\ ~clicking'[s]
             /\ clicking[s] => status'[s] = "Idle"
             /\ ~clicking[s] => UNCHANGED <<clicking, status, workers>>]_vars

\* emergency_stop_all has just called stop_clicker1 on clicker 1, which an
\* earlier stop call had stopped (its worker has not left the loop yet), and
\* the call changed nothing.
C8_SecondStopReturned ==
    \E i \in ListenerIds :
        /\ listener[i].pc = "estop2"
        /\ listener[i].noop
        /\ ~clicking["clicker1"]
        /\ status["clicker1"] = "Idle"
        /\ workers["clicker1"]["check"] + workers["clicker1"]["action"] = 1

\* C9: at most one hotkey listener (dispatch or capture) is running.
C9_OneListenerActive == Cardinality({j \in ListenerIds : Running(j)}) <= 1

\* C10: while capturing, the capture listener is the only listener running;
\* while not capturing, the dispatch listener is the only listener running.
C10_CapturingInvariant ==
    /\ listening_for_hotkey =>
          /\ hotkey_capture_listener # 0
          /\ {j \in ListenerIds : Running(j)} = {hotkey_capture_listener}
    /\ ~listening_for_hotkey =>
          /\ keyboard_listener # 0
          /\ {j \in ListenerIds : Running(j)} = {keyboard_listener}

DispatchRunning ==
    \E j \in ListenerIds : listener[j].kind = "dispatch" /\ Running(j)

\* C12: whenever capture_hotkey has consumed a key (its callback is past the
\* critical section), a dispatch listener is eventually running again,
\* whatever the write of the configuration does.
C12_DispatchRestarts ==
    \A i \in ListenerIds :
        InCall(i, {"assign", "save", "restart"}) ~> DispatchRunning

\* The write of the configuration failed (the file is left truncated), F8 is
\* bound to clicker 1, and the dispatch listener is running again.
C12_RestartedAfterFailedSave ==
    /\ config.state = "corrupt"
    /\ hotkey["clicker1"] = "f8"
    /\ ~listening_for_hotkey
    /\ afterQueue = << >>
    /\ Running(keyboard_listener)

\* The float x is a number of the range [MIN_INTERVAL, MAX_INTERVAL].
InRange(x) == x.kind = "num" /\ MIN_INTERVAL <= x.ms /\ x.ms <= MAX_INTERVAL

\* The step is an apply-interval request for slot s.
ApplyStep(s) ==
    /\ dialog'.name = s
    /\ <<interval, interval_var, config, dialog>>' # <<interval, interval_var, config, dialog>>

\* C13: an apply-interval request is accepted only if the value submitted is
\* a number of [0.01, 60.0]; any other value (out of the range, or not a
\* number) is rejected and the stored intervals and the configuration file
\* stay as they were.
C13_ApplyIntervalRange ==
    [][\A s \in Slots :
          ApplyStep(s)
          => IF InRange(Float(interval_var'[s]))
             THEN /\ dialog'.title = "Success"
                  /\ interval'[s] = Float(interval_var'[s])
             ELSE /\ dialog'.title = "Error"
                  /\ UNCHANGED <<interval, config>>]_vars

\* C14: every slot's interval is a number of [0.01, 60.0], in every
\* reachable state.
C14_IntervalsInRange == \A s \in Slots : InRange(interval[s])

\* The step is the rename of the temp file onto the script by update thread r.
Renamed(r) == upd[r].pc = "replace" /\ upd'[r].outcome = "Update Complete"

\* The step is the last one of thread r's run (its finally clause).
RunEnds(r) == upd[r].pc = "finally" /\ upd'[r].pc = "done"

\* C15: the temp file is renamed onto the script only by a run whose two
\* checksum comparisons have succeeded: the SHA-256 of the bytes downloaded
\* equals the expected checksum, and so did the SHA-256 of the bytes re-read
\* from the temp file; nothing else changes the script.
C15_RenameAfterBothChecks ==
    [][/\ \A r \in Runs :
             Renamed(r)
             => /\ upd[r].verified
                /\ upd[r].written_verified
                /\ Sha256(upd[r].content) = upd[r].expected_checksum
       /\ files'.script # files.script => \E r \in Runs : Renamed(r)]_vars

\* Thread 1 has installed the artifact "new" after both comparisons.
C15_Installed ==
    /\ upd[1].pc = "done"
    /\ upd[1].outcome = "Update Complete"
    /\ upd[1].verified /\ upd[1].written_verified
    /\ files.script = "new"

\* C16: a download whose SHA-256 differs from the expected checksum ends the
\* run with the "Security Error" message; that run writes no temp file and
\* no backup, does not touch the script, and removes nothing: from the
\* comparison to its end it changes no file.
C16_MismatchAborts ==
    [][\A r \in Runs :
          /\ (upd[r].pc = "download" /\ upd'[r].content # "none")
             => IF Sha256(upd'[r].content) # upd[r].expected_checksum
                THEN /\ upd'[r].outcome = "Security Error"
                     /\ upd'[r].pc = "finally"
                     /\ ~upd'[r].tmp_path
                     /\ UNCHANGED files
                ELSE upd'[r].pc = "write"
          /\ (upd[r].outcome = "Security Error" /\ RunEnds(r))
             => /\ UNCHANGED files
                /\ ~upd'[r].warned]_vars

\* Thread 1 was given "evil" where the checksum file named "new": its run has
\* ended with the security error, the script is the old one, and there is
\* neither a temp file nor a backup.
C16_AbortedOnMismatch ==
    /\ upd[1].pc = "done"
    /\ upd[1].outcome = "Security Error"
    /\ upd[1].content = "evil"
    /\ upd[1].expected_checksum = "sha_new"
    /\ files = [script |-> "old", tmp |-> "absent", backup |-> "absent"]

\* The token is exactly 64 lowercase hexadecimal characters.
WellFormed(t) == t.len = 64 /\ t.hex /\ ~t.upper

\* C17: a checksum file whose token is not exactly 64 lowercase hexadecimal
\* characters ends the run with the "Update Aborted" (unverifiable) outcome,
\* no file touched.
C17_MalformedChecksumAborts ==
    [][\A r \in Runs :
          (/\ upd[r].pc = "checksum"
           /\ upd'[r].checksum_content # NoToken
           /\ ~WellFormed(upd'[r].checksum_content))
          => /\ upd'[r].outcome = "Update Aborted"
             /\ upd'[r].pc = "finally"
             /\ UNCHANGED files]_vars

\* C18: when a run ends that has failed after it set up its temp file (the
\* write, the re-read, the backup or the rename failed, or an unexpected
\* exception was raised), the temp file does not exist, or the failure to
\* remove it has been logged; the script is not touched.
C18_TempRemoved ==
    [][\A r \in Runs :
          (/\ RunEnds(r)
           /\ \/ upd[r].outcome \in {"Failed to write update file",
                                      "Failed to verify written file",
                                      "Failed to create backup",
                                      "Failed to apply update"}
              \/ upd[r].tmp_path /\ upd[r].outcome # "Update Complete")
          => /\ files'.tmp = "absent" \/ upd'[r].warned
             /\ upd'[r].warned => (files'.tmp = files.tmp)
             /\ files'.script = files.script]_vars

\* Thread 1 wrote a temp file that did not verify; the run has ended, the
\* temp file is removed without a warning, the script is the old one.
C18_CleanedAfterBadWrite ==
    /\ upd[1].pc = "done"
    /\ upd[1].outcome = "Failed to verify written file"
    /\ upd[1].tmp_path
    /\ ~upd[1].warned
    /\ upd[2].pc = "idle"
    /\ files = [script |-> "old", tmp |-> "absent", backup |-> "absent"]

Newer(x, y) == ver.newer[<<x, y>>]
Incomparable(x, y) == ~Newer(x, y) /\ ~Newer(y, x)

\* C22: _version_newer is a strict weak ordering: irreflexive, asymmetric,
\* transitive, and incomparability is transitive, on all the arguments
\* (None and the empty string included).
C22_StrictWeakOrdering ==
    ver.called =>
        /\ ~Newer("a", "a")
        /\ ~(Newer("a", "b") /\ Newer("b", "a"))
        /\ (Newer("a", "b") /\ Newer("b", "c")) => Newer("a", "c")
        /\ (Incomparable("a", "b") /\ Incomparable("b", "c")) => Incomparable("a", "c")

\* What the specification says of a version string t (a sequence of
\* characters), stated on the text itself.  The text without one leading 'v':
Unprefixed(t) == IF t # << >> /\ t[1] = "v" THEN SubSeq(t, 2, Len(t)) ELSE t

\* The positions of a character in a text, in increasing order.
RECURSIVE Positions(_, _, _)
Positions(t, ch, from) ==
    IF from > Len(t) THEN << >>
    ELSE IF t[from] = ch THEN <<from>> \o Positions(t, ch, from + 1)
    ELSE Positions(t, ch, from + 1)

\* The text before the first hyphen, and the pre-release suffix after it.
MainText(t) ==
    LET h == Positions(Unprefixed(t), "-", 1)
    IN  IF h = << >> THEN Unprefixed(t) ELSE SubSeq(Unprefixed(t), 1, h[1] - 1)

SuffixText(t) ==
    LET h == Positions(Unprefixed(t), "-", 1)
    IN  IF h = << >> THEN << >> ELSE SubSeq(Unprefixed(t), h[1] + 1, Len(Unprefixed(t)))

\* The k-th component of the main text, empty if it has fewer components.
ComponentText(t, k) ==
    LET m == MainText(t)
        d == <<0>> \o Positions(m, ".", 1) \o <<Len(m) + 1>>
    IN  IF k + 1 > Len(d) THEN << >> ELSE SubSeq(m, d[k] + 1, d[k + 1] - 1)

\* The number a run of digits spells, 0 for the empty run.
RECURSIVE Decimal(_, _)
Decimal(t, acc) == IF t = << >> THEN acc ELSE Decimal(Tail(t), 10 * acc + DigitValue(Head(t)))

\* A component as an integer: its leading digit run, 0 if it has none.
ComponentValue(t, k) ==
    LET c == ComponentText(t, k)
        n == CHOOSE n \in 0..Len(c) :
                 /\ \A i \in 1..n : c[i] \in Digits
                 /\ n < Len(c) => c[n + 1] \notin Digits
    IN  Decimal(SubSeq(c, 1, n), 0)

\* (major, minor, patch), and the order of two such triples.
Triple(v) == <<ComponentValue(v.text, 1), ComponentValue(v.text, 2), ComponentValue(v.text, 3)>>

TripleGreater(x, y) ==
    \/ x[1] > y[1]
    \/ x[1] = y[1] /\ x[2] > y[2]
    \/ x[1] = y[1] /\ x[2] = y[2] /\ x[3] > y[3]

\* A version string, a pre-release build, a stable build; the number formed
\* by the digits of the suffix.
IsVersion(v) == ~v.none /\ v.text # << >>
IsPreRelease(v) == IsVersion(v) /\ SuffixText(v.text) # << >>
IsStable(v) == IsVersion(v) /\ SuffixText(v.text) = << >>

RECURSIVE DigitsOf(_)
DigitsOf(t) ==
    IF t = << >> THEN << >>
    ELSE IF Head(t) \in Digits THEN <<Head(t)>> \o DigitsOf(Tail(t))
    ELSE DigitsOf(Tail(t))

SuffixNumber(v) == Decimal(DigitsOf(SuffixText(v.text)), 0)

\* C23: for two builds of the same major.minor.patch, a stable build is
\* newer than a pre-release build and not the reverse, and of two
\* pre-release builds the first is newer exactly when the number formed by
\* the digits of its suffix is the larger.
C23_PreReleaseOrder ==
    (ver.called /\ IsVersion(ver.a) /\ IsVersion(ver.b) /\ Triple(ver.a) = Triple(ver.b)) =>
        /\ (IsStable(ver.a) /\ IsPreRelease(ver.b)) => (Newer("a", "b") /\ ~Newer("b", "a"))
        /\ (IsPreRelease(ver.a) /\ IsPreRelease(ver.b)) =>
              (Newer("a", "b") <=> SuffixNumber(ver.a) > SuffixNumber(ver.b))

\* 1.0.0-a1b0 (suffix number 10) was found newer than 1.0.0-b2, and the
\* stable v1.0.0 newer than both.
C23_SuffixTenOverTwo ==
    /\ ver.called
    /\ ver.a = S(<<"1", ".", "0", ".", "0", "-", "a", "1", "b", "0">>)
    /\ ver.b = S(<<"1", ".", "0", ".", "0", "-", "b", "2">>)
    /\ ver.c = S(<<"v", "1", ".", "0", ".", "0">>)
    /\ Newer("a", "b") /\ Newer("c", "a") /\ Newer("c", "b")

\* The main text without its trailing ".0" components.
RECURSIVE TrimZeros(_)
TrimZeros(m) ==
    IF Len(m) >= 2 /\ SubSeq(m, Len(m) - 1, Len(m)) = <<".", "0">>
    THEN TrimZeros(SubSeq(m, 1, Len(m) - 2))
    ELSE m

\* Two version strings that differ only by a 'v' prefix or by omitted
\* trailing ".0" components.
SameButPrefixAndPadding(x, y) ==
    /\ TrimZeros(MainText(x.text)) = TrimZeros(MainText(y.text))
    /\ SuffixText(x.text) = SuffixText(y.text)

\* C24: of two version strings the one with the larger (major, minor,
\* patch) is newer and the other is not; two that differ only by a 'v'
\* prefix or by omitted trailing ".0" components are equivalent.
C24_TripleOrder ==
    (ver.called /\ IsVersion(ver.a) /\ IsVersion(ver.b)) =>
        /\ TripleGreater(Triple(ver.a), Triple(ver.b)) => (Newer("a", "b") /\ ~Newer("b", "a"))
        /\ SameButPrefixAndPadding(ver.a, ver.b) => Incomparable("a", "b")

\* v1.10 was found newer than 1.4a.0 (10 > 4) and equivalent to 1.10.0.
C24_TenOverFourA ==
    /\ ver.called
    /\ ver.a = S(<<"v", "1", ".", "1", "0">>)
    /\ ver.b = S(<<"1", ".", "4", "a", ".", "0">>)
    /\ ver.c = S(<<"1", ".", "1", "0", ".", "0">>)
    /\ Newer("a", "b") /\ ~Newer("b", "a") /\ Incomparable("a", "c")

\* An invalid version: None, the empty string, or a string with no digit.
IsInvalid(v) == v.none \/ \A i \in 1..Len(v.text) : v.text[i] \notin Digits

\* C25: an invalid latest version (None, empty, no numeric component) is not
\* newer than any current version string.
C25_InvalidNeverNewer ==
    (ver.called /\ IsInvalid(ver.a) /\ IsVersion(ver.b)) => ~Newer("a", "b")

\* The serialized forms the claim calls malformed: no mapping; a type that
\* is no string or is unknown; type special (or none) with a name that is
\* missing or no string; type char with a char that is missing or is not a
\* string of one character.
MalformedKeyData(d) ==
    \/ d.kind # "dict"
    \/ d.type.kind \notin {"missing", "str"}
    \/ d.type.kind = "str" /\ d.type.text \notin {"special", "char"}
    \/ /\ d.type.kind = "missing" \/ (d.type.kind = "str" /\ d.type.text = "special")
       /\ d.name.kind # "str"
    \/ /\ d.type.kind = "str" /\ d.type.text = "char"
       /\ ~(d.char.kind = "str" /\ d.char.text \in Chars)

\* C26: a special key or a character key serialized and deserialized is the
\* same key again, and the deserialization of a malformed form is F6.
C26_RoundTrip ==
    /\ (keyio.pc = "round_trip" /\ (keyio.key.kind = "Key" \/ keyio.key.char \in Chars))
          => keyio.out = keyio.key
    /\ (keyio.pc = "deserialized" /\ MalformedKeyData(keyio.data))
          => keyio.out = Special("f6")

\* The character key 'a' has gone through both functions and come back.
C26_CharKeyBack ==
    /\ keyio.pc = "round_trip"
    /\ keyio.key = KeyCode("a")
    /\ keyio.data = KeyData(JsonStr("char"), JsonMissing, JsonStr("a"))
    /\ keyio.out = KeyCode("a")

\* C27: load_config does not raise, and of a document with one malformed
\* field every well-formed field is loaded while the malformed one has its
\* default (F6 for a hotkey).
C27_FieldwiseFallback ==
    (loaded.pc = "loaded" /\ loaded.doc.state = "json") =>
        LET p == loaded.program
            doc == loaded.doc
            attrs == loaded.attrs
        IN  /\ loaded.printed # "raised"
            /\ \A s \in ProgSlots(p) :
                  attrs.interval[s] =
                      IF doc.interval[s] = BaseDocument.interval[s]
                      THEN Num(MAX_INTERVAL) ELSE DefaultInterval(s)
            /\ \A t \in ProgTargets(p) :
                  /\ attrs.hotkey[t] =
                        IF doc.hotkey[t] = BaseDocument.hotkey[t]
                        THEN KeyCode("a") ELSE Special("f6")
                  /\ attrs.display[t] =
                        IF doc.display[t] = BaseDocument.display[t]
                        THEN JsonStr("A") ELSE JsonStr(DefaultDisplay(t))
            /\ p = "autoclicker_evdev.py" =>
                  attrs.keypresser_target_key =
                      IF doc.keypresser_target_key = BaseDocument.keypresser_target_key
                      THEN JsonInt(30) ELSE JsonInt(KEY_SPACE)
            /\ p = "autoclicker.py" =>
                  attrs.auto_check_updates =
                      (doc.auto_check_updates # BaseDocument.auto_check_updates)

\* C28: when on_closing has completed (the window is destroyed), every
\* slot's running flag is false and no listener is delivering events.
C28_ShutdownStopsEverything ==
    ui.pc = "closed" =>
        /\ ~window.exists
        /\ \A s \in Slots : ~clicking[s]
        /\ \A i \in ListenerIds : ~listener[i].running

\* The live workers of a slot after a step.
AliveAfter(s) == workers'[s]["check"] + workers'[s]["action"] + workers'[s]["failed"]

\* C29: the except branch of a worker loop clears the flag of its slot,
\* schedules the "Error" status (which the main thread then sets), ends the
\* worker, and leaves the flags and workers of the other slots alone; no
\* step but the start made by a toggle adds a worker to a slot.
C29_ActuatorFailure ==
    [][\A s \in Slots :
          /\ workers'[s]["failed"] < workers[s]["failed"]
                => /\ ~clicking'[s]
                   /\ AliveAfter(s) = Alive(s) - 1
                   /\ afterQueue' = Append(afterQueue, <<"status_error", s>>)
                   /\ \A t \in Slots \ {s} :
                         clicking'[t] = clicking[t] /\ workers'[t] = workers[t]
          /\ (Len(afterQueue') < Len(afterQueue) /\ Head(afterQueue) = <<"status_error", s>>)
                => (status'[s] = "Error" /\ UNCHANGED <<clicking, workers>>)
          /\ AliveAfter(s) > Alive(s)
                => \E i \in ListenerIds :
                      listener[i].pc = "start_self" /\ listener[i].slot = s]_vars

\* The actuator of clicker 1 failed: its flag is false, its status is Error
\* and it has no worker left, while the key presser goes on running.
C29_OneSlotInError ==
    /\ status["clicker1"] = "Error"
    /\ ~clicking["clicker1"]
    /\ Alive("clicker1") = 0
    /\ clicking["keypresser"]
    /\ workers["keypresser"]["action"] = 1

\* C30: while the flag of a slot is false no worker of the slot begins an
\* actuator action (the ones in flight may complete), and under fair
\* scheduling the slot is started again or all its workers have exited.
C30_StoppedWorkerExits ==
    /\ [][\A s \in Slots : ~clicking[s] =>
              workers'[s]["action"] <= workers[s]["action"]]_vars
    /\ \A s \in Slots : (~clicking[s]) ~> (clicking[s] \/ Alive(s) = 0)

\* Clicker 1 was stopped while its worker was inside the actuator call.
C30_StoppedInFlight ==
    /\ ~clicking["clicker1"]
    /\ status["clicker1"] = "Idle"
    /\ workers["clicker1"]["action"] = 1

\* The positions of a dispatch callback from which it acts on a slot: inside
\* a toggle or inside the emergency stop.
Acting == {"toggle", "stop_self", "stop_sibling", "start_self",
           "estop1", "estop2", "estop3"}

\* C31: while capturing (from the start of a rebinding to the consumption of
\* the captured key) no key press is dispatched: no callback goes from the
\* rate limiter on to a toggle or to the emergency stop, and none takes a step
\* of one; and the key the capture listener consumed becomes the hotkey of
\* the target recorded for it and of no other target.
C31_NoDispatchWhileCapturing ==
    [][/\ listening_for_hotkey =>
             \A i \in ListenerIds :
                 /\ listener[i].pc = "rate" => listener'[i].pc \notin Acting
                 /\ listener[i].pc \in Acting => listener'[i].pc = listener[i].pc
       /\ \A i \in ListenerIds :
             (listener[i].pc = "assign" /\ listener'[i].pc # "assign")
                 => hotkey' = [hotkey EXCEPT ![listener[i].slot] = listener[i].key]
       /\ hotkey' # hotkey =>
             \E i \in ListenerIds :
                 listener[i].pc = "assign" /\ listener'[i].pc # "assign"]_vars

\* C32: a key delivered to capture_hotkey while the capturing flag is false
\* is ignored, and so is every key that a capture listener delivers after a
\* capture has been consumed and the listener stopped: its callback returns
\* without going on to bind the key (no binding, target, listener or
\* configuration changes).
C32_LateKeyIgnored ==
    [][\A i \in ListenerIds :
          (/\ listener[i].kind = "capture"
           /\ listener[i].pc = "idle"
           /\ (~listening_for_hotkey \/ ~listener[i].running))
              => \/ listener'[i].pc = "idle"
                 \/ listener'[i].kind # "capture"]_vars

\* C33: every iteration of a worker loop reads the slot's interval once, at
\* the loop top, and sleeps for that value after the action: the sleep takes
\* the value one of the slot's workers read at its loop top, and a change of
\* the slot's interval alters neither the values already read nor the sleep;
\* the next loop top reads the changed interval.
C33_IntervalPerIteration ==
    [][\A s \in Slots :
          /\ workers'[s]["action"] > workers[s]["action"]
                => loop'[s].interval = Append(loop[s].interval, interval[s])
          /\ (/\ workers'[s]["action"] < workers[s]["action"]
              /\ workers'[s]["check"] > workers[s]["check"])
                => \E k \in 1..Len(loop[s].interval) :
                      /\ loop'[s].sleep = loop[s].interval[k]
                      /\ loop'[s].interval = Remove(loop[s].interval, k)
          /\ interval'[s] # interval[s] => loop'[s] = loop[s]]_vars

\* The interval of clicker 1 was set to 60 s while its worker was inside an
\* iteration that had read 0.5 s, as its iteration before had.
C33_ChangedDuringIteration ==
    /\ clicking["clicker1"]
    /\ workers["clicker1"]["action"] = 1
    /\ interval["clicker1"] = Num(60000)
    /\ loop["clicker1"].interval = <<Num(500)>>
    /\ loop["clicker1"].sleep = Num(500)

\* The locks thread t holds.
Held(t) == {l \in Locks : lock[l] = t}

\* Thread t is at the operation `name` (about to make it).
At(t, name) == thread[t] # << >> /\ Head(thread[t]) = Op(name)

\* Thread t has the configuration file open for writing: inside the `with
\* open(...)` block of save_config.
Writing(t) ==
    /\ \E k \in 1..Len(thread[t]) : thread[t][k] = Op("close")
    /\ \A k \in 1..Len(thread[t]) : thread[t][k] # Op("open")

\* C34: writes of the configuration file never overlap: at most one thread
\* is inside the write of save_config at any time.
C34_OneWriter == Cardinality({t \in Threads : Writing(t)}) <= 1

C35_FailedStartSurfaced ==
    [][(/\ afterQueue # << >>
        /\ Head(afterQueue)[1] = "start_keyboard_listener"
        /\ afterQueue' = Tail(afterQueue)
        /\ ~(\E j \in ListenerIds : listener'[j].kind = "dispatch" /\ listener'[j].running))
          => (status' # status \/ dialog' # dialog)]_vars

\* Callback i takes a step of a toggle (its stop or start call) of a slot of G.
ToggleStep(i, G) ==
    /\ listener[i].pc \in {"stop_self", "stop_sibling", "start_self"}
    /\ listener'[i].pc # listener[i].pc
    /\ listener[i].slot \in G

\* Callback i takes the step of the emergency stop that stops a slot of G.
EmergencyStep(i, G) ==
    /\ listener'[i].pc # listener[i].pc
    /\ \/ listener[i].pc = "estop1" /\ "clicker1" \in G
       \/ listener[i].pc = "estop2" /\ "clicker2" \in G
       \/ listener[i].pc = "estop3" /\ "keypresser" \in G

\* on_closing takes the step that stops a slot of G.
ClosingStep(G) ==
    /\ ui'.pc # ui.pc
    /\ \/ ui.pc = "idle" /\ ui'.pc = "close_clicker2" /\ "clicker1" \in G
       \/ ui.pc = "close_clicker2" /\ "clicker2" \in G
       \/ ui.pc = "close_keypresser" /\ "keypresser" \in G

\* C36: the key presser and the clickers are independent: a step of a toggle
\* (stop or start) of the key presser changes no clicker's running flag, a
\* step of a toggle of a clicker does not change the key presser's flag; the
\* flag of the key presser changes only in a toggle of the key presser, in
\* the emergency stop, in the shutdown or when its worker fails, and the
\* flag of a clicker only in a toggle of a clicker, in the emergency stop,
\* in the shutdown or when its worker fails.
C36_KeyPresserIndependent ==
    [][/\ \A i \in ListenerIds :
             /\ ToggleStep(i, {"keypresser"}) =>
                   \A c \in Clickers : clicking'[c] = clicking[c]
             /\ ToggleStep(i, Clickers) =>
                   clicking'["keypresser"] = clicking["keypresser"]
       /\ clicking'["keypresser"] # clicking["keypresser"] =>
             \/ \E i \in ListenerIds : ToggleStep(i, {"keypresser"})
             \/ \E i \in ListenerIds : EmergencyStep(i, {"keypresser"})
             \/ ClosingStep({"keypresser"})
             \/ workers'["keypresser"]["failed"] < workers["keypresser"]["failed"]
       /\ \A c \in Clickers : clicking'[c] # clicking[c] =>
             \/ \E i \in ListenerIds : ToggleStep(i, Clickers)
             \/ \E i \in ListenerIds : EmergencyStep(i, {c})
             \/ ClosingStep({c})
             \/ workers'[c]["failed"] < workers[c]["failed"]]_vars

\* The key presser has been started by its hotkey while clicker 1 runs, and
\* both go on running.
C36_BothRunning ==
    /\ clicking["clicker1"]
    /\ clicking["keypresser"]
    /\ ~clicking["clicker2"]
    /\ "f8" \in DOMAIN last_hotkey_time
    /\ \A i \in ListenerIds : listener[i].pc = "idle"

\* The targets a key is bound to, and their priority.
Bound(key) == {t \in Targets : hotkey[t] = key}

Rank(t) ==
    CASE t = "emergency_stop" -> 1
      [] t = "clicker1" -> 2
      [] t = "clicker2" -> 3
      [] OTHER -> 4

Highest(key) == CHOOSE t \in Bound(key) : \A u \in Bound(key) : Rank(t) <= Rank(u)

\* C37: a dispatched key triggers at most one action, that of the target of
\* highest priority among those the key is bound to (emergency stop, then
\* clicker 1, clicker 2, key presser): the callback goes on to the emergency
\* stop, or to the toggle of that one slot; it returns without acting only if
\* the key is rate limited or bound to no target.
C37_PriorityDispatch ==
    [][\A i \in ListenerIds :
          (listener[i].pc = "rate" /\ listener'[i].pc # "rate") =>
              LET key == listener[i].key IN
              /\ listener'[i].pc \in {"idle", "estop1", "toggle"}
              /\ listener'[i].pc = "idle" =>
                    (Bound(key) = {} \/ RateLimited(key, now))
              /\ listener'[i].pc = "estop1" =>
                    (Bound(key) # {} /\ Highest(key) = "emergency_stop")
              /\ listener'[i].pc = "toggle" =>
                    /\ Bound(key) # {}
                    /\ Highest(key) = listener'[i].slot
                    /\ key # hotkey["emergency_stop"]]_vars

\* F6 is bound to the emergency stop and to clicker 1 and has been pressed:
\* the callback is in the emergency stop.
C37_EmergencyStopWins ==
    /\ hotkey["emergency_stop"] = "f6"
    /\ hotkey["clicker1"] = "f6"
    /\ DOMAIN last_hotkey_time = {"f6"}
    /\ \E i \in ListenerIds : listener[i].pc = "estop1"

\* No "Error" status is waiting in the Tk event queue.
NoPendingStatus ==
    \A k \in 1..Len(afterQueue) : afterQueue[k][1] # "status_error"

\* C38: once every pending status notification has been delivered, the
\* status shown for a slot agrees with its flag: it is "Running" exactly when
\* the flag is true, and "Idle" or "Error" only when the flag is false.
C38_StatusAgreesWithFlag ==
    NoPendingStatus =>
        \A s \in Slots :
            /\ (status[s] = "Running") <=> clicking[s]
            /\ status[s] \in {"Idle", "Error"} => ~clicking[s]

\* Update thread q has written its temp file and has yet to rename it.
OwnsTemp(q) == upd[q].tmp_path /\ upd[q].pc \in {"verify", "backup", "replace"}

\* C40: with two update threads running at once, the file a thread renames
\* onto the script has the SHA-256 that this thread expects, and no step of
\* one thread overwrites or deletes the temp file the other one has written
\* and not yet renamed.
C40_ConcurrentRunsIsolated ==
    [][\A r \in Runs :
          /\ Renamed(r) => Sha256(files'.script) = upd[r].expected_checksum
          /\ (upd'[r] # upd[r] /\ files'.tmp # files.tmp)
                => \A q \in Runs \ {r} : ~OwnsTemp(q)]_vars
====
